---- MODULE Spec2Model ----
(***************************************************************************)
(* tempo-mcp: the timesheet synthesis engine of TempoClient                *)
(* (generateTimesheet, createWorklog, the e-mail / calendar matcher).      *)
(*                                                                         *)
(* The repository holds three revisions of tempo-client.ts; the model      *)
(* follows each of them, selected by the variable rev:                     *)
(*   "src"      src/src/tempo-client.ts  (commit-count weights)            *)
(*   "part_000" src/unnamed/part_000     (lines changed x story points,    *)
(*                                        e-mail tasks)                    *)
(*   "part_001" src/unnamed/part_001     (the same plus calendar events)   *)
(*                                                                         *)
(* Numbers.  Hours are kept in hundredths of an hour (0.25 h = 25), the    *)
(* finest grain any revision rounds to, and every product / quotient of    *)
(* the code is computed exactly and rounded as Math.round does (half up).  *)
(* Texts (descriptions, summaries, titles) are sequences of words;         *)
(* String.includes(w) is membership of the word w.  Issue keys are the     *)
(* strings of a small universe, key.split("-")[0] is KeyProject.           *)
(***************************************************************************)
EXTENDS Integers, Sequences, FiniteSets, TLC

VARIABLES
    rev,                \* the revision of tempo-client.ts that runs
    commitsByDate,      \* generateTimesheet: commitsByDate, by day index 1..4
    emailTasksByDate,   \* generateTimesheet: emailTasksByDate (after the filter)
    calendarTasksByDate,\* generateTimesheet: calendarTasksByDate (after the filter)
    calendarEventsByDate,\* what getCalendarEvents(date, date) returns for each day
    run,                \* the generateTimesheet call: pc, day, entry, result, calls
    twin,               \* a second call on the same inputs with dryRun = true
    cw,                 \* one createWorklog call (its two-attempt protocol)
    mt,                 \* one matcher call on one signal
    dy,                 \* one iteration of the day loop on its own
    sources,            \* the collection phase: repositories, logs, mail, calendar
    server              \* index.ts: the process and one tempo_generate_timesheet call

evidence == <<commitsByDate, emailTasksByDate, calendarTasksByDate, calendarEventsByDate>>

vars == <<rev, evidence, run, twin, cw, mt, dy, sources, server>>

-----------------------------------------------------------------------------
(* Bounds of the model *)

MaxCommitsPerDay == 2    \* commits of one day when a day is allocated on its own

MaxFailures == 1         \* createWorklog failures in one run

MaxWeekEvidence == 2     \* commits, mail matches, meetings in the week of one run

MaxIssuesFound == 2      \* issues in the answer to findActiveProjectAccount's search

MaxPool == 2             \* candidate issues the matcher scores a signal against

-----------------------------------------------------------------------------
(* Arithmetic and sequences *)

Revisions == {"src", "part_000", "part_001"}

Max(a, b) == IF a >= b THEN a ELSE b

Abs(a) == IF a >= 0 THEN a ELSE 0 - a

\* Math.round(n / d) for d > 0: the nearest integer, halves rounded up
MathRound(n, d) == (2 * n + d) \div (2 * d)

Range(s) == {s[i] : i \in DOMAIN s}

RECURSIVE SumHours(_)
SumHours(entries) ==
    IF entries = <<>> THEN 0
    ELSE entries[1].hours + SumHours(Tail(entries))

RECURSIVE Concat(_)
Concat(seqs) == IF seqs = <<>> THEN <<>> ELSE seqs[1] \o Concat(Tail(seqs))

\* [...new Set(xs)] : the distinct elements in order of first occurrence
RECURSIVE Unique(_)
Unique(xs) ==
    IF xs = <<>> THEN <<>>
    ELSE LET init == Unique(SubSeq(xs, 1, Len(xs) - 1))
             last == xs[Len(xs)]
         IN  IF last \in Range(init) THEN init ELSE Append(init, last)

\* xs.slice(0, n)
Take(xs, n) == SubSeq(xs, 1, IF n < Len(xs) THEN n ELSE Len(xs))

\* the first index of xs holding x (0 when absent): Array.find / findIndex
RECURSIVE IndexOf(_, _, _)
IndexOf(xs, x, from) ==
    IF from > Len(xs) THEN 0
    ELSE IF xs[from] = x THEN from ELSE IndexOf(xs, x, from + 1)
-----------------------------------------------------------------------------
(* The universe of issue keys, projects and words *)

\* mondayMeetingIssue = "BS-14"
MondayMeetingIssue == "BS-14"

\* issueKey.split("-")[0]
KeyProject(key) ==
    CASE key \in {"ABC-1", "ABC-2", "ABC-9"} -> "ABC"
      [] key \in {"XYZ-1", "XYZ-9"} -> "XYZ"
      [] OTHER -> "BS"

\* projectKey + "-1"
FirstIssueOf(project) ==
    CASE project = "ABC" -> "ABC-1"
      [] project = "XYZ" -> "XYZ-1"
      [] OTHER -> "BS-1"

\* storyPoints: null
NullPoints == 0 - 1

Err(kind, day, key, reason) ==
    [kind |-> kind, day |-> day, issueKey |-> key, reason |-> reason]

Entry(key, hours, description, project) ==
    [issueKey |-> key, hours |-> hours, description |-> description,
     project |-> project]

\* description.includes(word)
Includes(text, word) == word \in Range(text)

\* description.includes("w1 w2")
IncludesPair(text, w1, w2) ==
    \E i \in 1..(Len(text) - 1) : text[i] = w1 /\ text[i + 1] = w2

-----------------------------------------------------------------------------
(* generateTimesheet: one day of the per-day loop *)

\* availableMinutes after the fixed meetings are taken off
AvailableMinutes(R, d) ==
    LET sprintMeetingMinutes == IF R = "part_001" THEN 0 ELSE 15
        mondayMeetingMinutes == IF d = 1 THEN 15 ELSE 0
    IN  8 * 60 - sprintMeetingMinutes - mondayMeetingMinutes

\* dayCommits: "src" pushes a meeting commit on Monday before the check
DayCommits(R, d, commits) ==
    IF R = "src" /\ d = 1
    THEN Append(commits,
                [issueKeys |-> <<MondayMeetingIssue>>,
                 project |-> KeyProject(MondayMeetingIssue),
                 linesChanged |-> 0,
                 message |-> <<"Weekly", "team", "sync">>])
    ELSE commits

\* issueCommits.keys(): the keys named by the day's commits, in insertion order
IssueKeys(dayCommits) ==
    Unique(Concat([i \in 1..Len(dayCommits) |-> dayCommits[i].issueKeys]))

\* issueCommits.get(key): a commit is in the group of every key it names
IssueCommits(dayCommits, key) ==
    SelectSeq(dayCommits, LAMBDA c : key \in Range(c.issueKeys))

KeyedCommits(dayCommits) == SelectSeq(dayCommits, LAMBDA c : c.issueKeys # <<>>)

\* the project a keyed commit counts for
CommitProject(R, c) == IF R = "src" THEN c.project ELSE KeyProject(c.issueKeys[1])

\* what a keyed commit adds to its project: 1 ("src") or its linesChanged
CommitAmount(R, c) == IF R = "src" THEN 1 ELSE c.linesChanged

RECURSIVE SumAmount(_, _, _)
SumAmount(R, commits, project) ==
    IF commits = <<>> THEN 0
    ELSE (IF CommitProject(R, commits[1]) = project
          THEN CommitAmount(R, commits[1]) ELSE 0)
         + SumAmount(R, Tail(commits), project)

\* mainProject: the first project, in insertion order, with the greatest total
MainProject(R, dayCommits) ==
    LET keyed == KeyedCommits(dayCommits)
        order == Unique([i \in 1..Len(keyed) |-> CommitProject(R, keyed[i])])
        total(p) == SumAmount(R, keyed, p)
        best == {i \in 1..Len(order) :
                    /\ total(order[i]) > 0
                    /\ \A j \in 1..Len(order) : total(order[j]) <= total(order[i])}
    IN  IF best = {} THEN ""
        ELSE order[CHOOSE i \in best : \A j \in best : i <= j]

RECURSIVE SumLines(_)
SumLines(commits) ==
    IF commits = <<>> THEN 0
    ELSE commits[1].linesChanged + SumLines(Tail(commits))

\* details?.storyPoints || 1
StoryPointMultiplier(details) ==
    IF details.storyPoints = NullPoints \/ details.storyPoints = 0
    THEN 1 ELSE details.storyPoints

\* weight = issueLines * storyPointMultiplier
IssueWeight(dayCommits, det, key) ==
    SumLines(IssueCommits(dayCommits, key)) * StoryPointMultiplier(det[key])

RECURSIVE TotalWeight(_, _, _)
TotalWeight(dayCommits, det, keys) ==
    IF keys = <<>> THEN 0
    ELSE IssueWeight(dayCommits, det, keys[1])
         + TotalWeight(dayCommits, det, Tail(keys))

\* hours without the floor of 0.25: roundTo15Min(rawHours) alone
WeightedHoursNoFloor(availableMinutes, weight, totalWeight) ==
    25 * MathRound(availableMinutes * weight, 15 * totalWeight)

\* Math.max(0.25, roundTo15Min((availableMinutes * weightRatio) / 60))
WeightedHours(availableMinutes, weight, totalWeight) ==
    Max(25, 25 * MathRound(availableMinutes * weight, 15 * totalWeight))

\* "src": Math.round((Math.round(availableMinutes * weight) / 60) * 100) / 100
CountHours(availableMinutes, count, totalCommits) ==
    MathRound(MathRound(availableMinutes * count, totalCommits) * 100, 60)

\* generateDescription: the distinct non-empty cleaned messages, joined
RECURSIVE JoinTexts(_, _)
JoinTexts(texts, sep) ==
    IF texts = <<>> THEN <<>>
    ELSE IF Len(texts) = 1 THEN texts[1]
    ELSE texts[1] \o <<sep>> \o JoinTexts(Tail(texts), sep)

GenerateDescription(R, commits) ==
    LET clean == SelectSeq([i \in 1..Len(commits) |-> commits[i].message],
                           LAMBDA m : m # <<>>)
        uniq == Unique(clean)
    IN  IF clean = <<>>
        THEN IF R = "part_001" THEN <<"Developpement">>
             ELSE <<"Development", "work">>
        ELSE IF R = "part_001" THEN JoinTexts(Take(uniq, 3), "|")
        ELSE IF Len(uniq) > 3 THEN JoinTexts(Take(uniq, 3), ",") \o <<"...">>
        ELSE JoinTexts(uniq, ",")

\* entries.push(entry); totalHours += entry.hours
PushEntry(acc, entry) ==
    [acc EXCEPT !.entries = Append(@, entry), !.totalHours = @ + entry.hours]

\* existingEntry.hours += hours; totalHours += hours
AddToEntry(acc, at, hours) ==
    [acc EXCEPT !.entries[at].hours = @ + hours, !.totalHours = @ + hours]

\* the index of the first entry of the issue (0 when none): entries.find(...)
RECURSIVE EntryIndex(_, _, _)
EntryIndex(entries, key, from) ==
    IF from > Len(entries) THEN 0
    ELSE IF entries[from].issueKey = key THEN from
    ELSE EntryIndex(entries, key, from + 1)

\* the hours of one issue of the day's commits
IssueHours(R, d, dayCommits, det, key) ==
    IF R = "src"
    THEN CountHours(AvailableMinutes(R, d), Len(IssueCommits(dayCommits, key)),
                    Len(dayCommits))
    ELSE WeightedHours(AvailableMinutes(R, d), IssueWeight(dayCommits, det, key),
                       TotalWeight(dayCommits, det, IssueKeys(dayCommits)))

\* the description of the entry of one issue of the day's commits
IssueDescription(R, dayCommits, det, key) ==
    IF R = "part_000"
    THEN IF det[key].summary # <<>> THEN det[key].summary ELSE <<key>>
    ELSE GenerateDescription(R, IssueCommits(dayCommits, key))

\* the entries pushed for the issues of the day's commits
RECURSIVE CommitEntries(_, _, _, _, _, _)
CommitEntries(acc, R, d, dayCommits, det, keys) ==
    IF keys = <<>> THEN acc
    ELSE
      LET key == keys[1]
          hours == IssueHours(R, d, dayCommits, det, key)
          entry == Entry(key, hours, IssueDescription(R, dayCommits, det, key),
                         KeyProject(key))
      IN  IF R = "src" /\ hours < 25
          THEN CommitEntries(acc, R, d, dayCommits, det, Tail(keys))
          ELSE CommitEntries(PushEntry(acc, entry), R, d, dayCommits, det, Tail(keys))

\* the daily standup on the main project's Sprint Meetings issue ("src",
\* "part_000"); findSprintMeetingsIssue is not guarded: a failed lookup throws
StandupEntry(acc, R, mainProject, sprint) ==
    IF mainProject = "" THEN acc
    ELSE IF sprint[mainProject] = "fail" THEN [acc EXCEPT !.thrown = TRUE]
    ELSE IF sprint[mainProject] = "none" THEN acc
    ELSE PushEntry(acc, Entry(sprint[mainProject], 25,
                              IF R = "src" THEN <<"Daily", "standup">>
                              ELSE <<"Daily">>,
                              mainProject))

\* the Monday team sync entry ("part_000")
MondayEntry(acc, d) ==
    IF d = 1
    THEN PushEntry(acc, Entry(MondayMeetingIssue, 25, <<"Weekly", "team", "sync">>,
                              KeyProject(MondayMeetingIssue)))
    ELSE acc

\* the e-mail tasks of the day: 0.25 h for each issue that has no entry yet
RECURSIVE EmailEntries(_, _, _, _)
EmailEntries(acc, R, tasks, det) ==
    IF tasks = <<>> THEN acc
    ELSE
      LET task == tasks[1]
          key == task.issueKey
          text == IF R = "part_000"
                  THEN <<"[mail]">> \o (IF det[key].summary # <<>>
                                         THEN det[key].summary ELSE task.subject)
                  ELSE <<"Suivi", "client", "-">> \o task.subject
      IN  IF EntryIndex(acc.entries, key, 1) # 0
          THEN EmailEntries(acc, R, Tail(tasks), det)
          ELSE EmailEntries(PushEntry(acc, Entry(key, 25, text, KeyProject(key))),
                            R, Tail(tasks), det)

\* the words the title tests of the calendar loop look for
IsSprintMeeting(title) ==
    \E w \in Range(title) :
        w \in {"Daily", "Standup", "Sprint", "Planning", "Retro", "Review",
               "Refinement", "Grooming", "Sync", "Bamboo", "Infusion", "Global"}

\* event.title.match(/([A-Z]{2,})/): the first upper-case run of the title
TitleProject(title) ==
    LET hits == {i \in DOMAIN title : title[i] \in {"ABC", "XYZ", "BS"}}
    IN  IF hits = {} THEN ""
        ELSE title[CHOOSE i \in hits : \A j \in hits : i <= j]

\* the project of a sprint meeting: title, then attendees, then the fall-back
MeetingProject(event, mainProject) ==
    IF TitleProject(event.title) # "" THEN TitleProject(event.title)
    ELSE IF event.attendeeProject # "" THEN event.attendeeProject
    ELSE IF \E w \in Range(event.title) : w \in {"Bamboo", "Infusion", "Team"}
         THEN "BS"
    ELSE IF mainProject # "" THEN mainProject ELSE "BS"

MeetingDescription(title) ==
    LET has(ws) == \E w \in Range(title) : w \in ws
    IN  IF has({"Daily", "Standup"}) THEN <<"Daily", "standup">>
        ELSE IF has({"Planning"}) THEN <<"Sprint", "planning">>
        ELSE IF has({"Retro"}) THEN <<"Retrospective">>
        ELSE IF has({"Refinement", "Grooming"}) THEN <<"Raffinement">>
        ELSE IF has({"Infusion"}) THEN <<"Infusion">>
        ELSE IF has({"Bamboo", "Team"}) THEN <<"Team", "sync">>
        ELSE title

\* event.durationMinutes / 60, in hundredths of an hour
DurationHours(event) == (event.durationMinutes * 100) \div 60

\* the sprint / project meetings of the day's calendar ("part_001");
\* findSprintMeetingsIssue is not guarded: a failed lookup throws
RECURSIVE SprintMeetingEntries(_, _, _, _)
SprintMeetingEntries(acc, events, mainProject, sprint) ==
    IF events = <<>> \/ acc.thrown THEN acc
    ELSE
      LET event == events[1]
          projectKey == MeetingProject(event, mainProject)
          answer == sprint[projectKey]
          targetIssue == IF answer = "none" THEN FirstIssueOf(projectKey) ELSE answer
          at == EntryIndex(acc.entries, targetIssue, 1)
          merged ==
              IF at # 0 THEN AddToEntry(acc, at, DurationHours(event))
              ELSE PushEntry(acc, Entry(targetIssue, DurationHours(event),
                                        MeetingDescription(event.title), projectKey))
      IN  IF ~IsSprintMeeting(event.title)
          THEN SprintMeetingEntries(acc, Tail(events), mainProject, sprint)
          ELSE IF answer = "fail"
          THEN [acc EXCEPT !.thrown = TRUE]
          ELSE SprintMeetingEntries(merged, Tail(events), mainProject, sprint)

\* the matched calendar events of the day ("part_001"): the event's duration,
\* added to the issue's entry when it has one; done = addedCalendarIssues
RECURSIVE CalendarEntries(_, _, _)
CalendarEntries(acc, tasks, done) ==
    IF tasks = <<>> THEN acc
    ELSE
      LET task == tasks[1]
          key == task.issueKey
          at == EntryIndex(acc.entries, key, 1)
          added == AddToEntry(acc, at, DurationHours(task.event))
          next ==
              IF at # 0
              THEN [added EXCEPT !.entries[at].description =
                                    @ \o <<"+", "Meeting:">> \o task.event.title]
              ELSE PushEntry(acc, Entry(key, DurationHours(task.event),
                                        <<"Meeting", "-">> \o task.event.title,
                                        KeyProject(key)))
      IN  IF key \in done THEN CalendarEntries(acc, Tail(tasks), done)
          ELSE CalendarEntries(next, Tail(tasks), done \cup {key})

-----------------------------------------------------------------------------
(* generateTimesheet: normalization of one day *)

\* an entry the residual may go to: its description names no fixed meeting
Adjustable(R, entry) ==
    /\ ~Includes(entry.description, "Daily")
    /\ IF R = "part_001"
       THEN ~IncludesPair(entry.description, "Weekly", "sync")
       ELSE ~IncludesPair(entry.description, "team", "sync")

\* adjustableEntries.reduce((a, b) => a.hours > b.hours ? a : b): the index of
\* the last adjustable entry among those with the most hours (0 when none)
LargestAdjustable(R, entries) ==
    LET adj == {i \in DOMAIN entries : Adjustable(R, entries[i])}
        top == {i \in adj : \A j \in adj : entries[j].hours <= entries[i].hours}
    IN  IF adj = {} THEN 0 ELSE CHOOSE i \in top : \A j \in top : j <= i

\* first pass: Math.max(0.25, roundTo15Min(entry.hours * factor)),
\* factor = 8 / totalHours
ScaleEntries(entries, totalHours) ==
    [i \in DOMAIN entries |->
        [entries[i] EXCEPT !.hours = Max(25, 25 * MathRound(32 * @, totalHours))]]

\* second pass: the residual, when at least 0.25 h, goes to the largest
\* adjustable entry
AdjustLargest(R, entries) ==
    LET diff == 25 * MathRound(4 * (800 - SumHours(entries)), 100)
        at == LargestAdjustable(R, entries)
    IN  IF Abs(diff) >= 25 /\ at # 0
        THEN [entries EXCEPT ![at].hours = Max(25, 25 * MathRound(4 * (@ + diff), 100))]
        ELSE entries

\* "src": entry.hours = Math.round(entry.hours * factor * 100) / 100 when the
\* total is more than 0.01 h off 8 h
RescaleEntries(entries, totalHours) ==
    [i \in DOMAIN entries |->
        [entries[i] EXCEPT !.hours = MathRound(800 * @, totalHours)]]

\* a normalization that leaves totalHours as it was accumulated
NormalizeStaleTotal(R, acc) ==
    IF acc.entries = <<>> THEN acc
    ELSE IF R = "src"
    THEN IF Abs(acc.totalHours - 800) > 1
         THEN [acc EXCEPT !.entries = RescaleEntries(acc.entries, acc.totalHours)]
         ELSE acc
    ELSE [acc EXCEPT !.entries =
                        AdjustLargest(R, ScaleEntries(acc.entries, acc.totalHours))]

\* the normalization block of the per-day loop
Normalize(R, acc) ==
    IF acc.entries = <<>> THEN acc
    ELSE IF R = "src"
    THEN IF Abs(acc.totalHours - 800) > 1
         THEN LET scaled == RescaleEntries(acc.entries, acc.totalHours)
              IN  [acc EXCEPT !.entries = scaled, !.totalHours = SumHours(scaled)]
         ELSE acc
    ELSE LET adjusted == AdjustLargest(R, ScaleEntries(acc.entries, acc.totalHours))
         IN  [acc EXCEPT !.entries = adjusted, !.totalHours = SumHours(adjusted)]

-----------------------------------------------------------------------------
(* generateTimesheet: the body of the per-day loop, up to result.days.push *)

DayNames == <<"Monday", "Tuesday", "Wednesday", "Thursday">>

EmptyDay == [entries |-> <<>>, totalHours |-> 0, thrown |-> FALSE]

\* "src", "part_000": the day's entries before normalization
\* (commit issues, daily standup, Monday team sync, e-mail tasks)
AllocateEarly(R, d, dayCommits, emailTasks, det, sprint) ==
    LET keys == IssueKeys(dayCommits)
        shares == CommitEntries(EmptyDay, R, d, dayCommits, det, keys)
        standup == StandupEntry(shares, R, MainProject(R, dayCommits), sprint)
        fixed == IF keys = <<>> THEN EmptyDay
                 ELSE IF R = "src" \/ standup.thrown THEN standup
                 ELSE MondayEntry(standup, d)
    IN  IF R = "src" \/ fixed.thrown THEN fixed
        ELSE EmailEntries(fixed, R, emailTasks, det)

\* "part_001": the day's entries before normalization
\* (commit issues, calendar sprint meetings, e-mail tasks, calendar tasks)
AllocateCalendar(d, dayCommits, emailTasks, calendarTasks, events, det, sprint) ==
    LET keys == IssueKeys(dayCommits)
        shares == CommitEntries(EmptyDay, "part_001", d, dayCommits, det, keys)
        meetings == SprintMeetingEntries(shares, events,
                                         MainProject("part_001", dayCommits), sprint)
    IN  IF meetings.thrown THEN meetings
        ELSE CalendarEntries(EmailEntries(meetings, "part_001", emailTasks, det),
                             calendarTasks, {})

\* the check "dayCommits.length === 0": the warning, and (not in "part_001")
\* the day pushed empty and the rest of the loop body skipped
NoCommits(R, d, commits) == Len(DayCommits(R, d, commits)) = 0

SkipsDay(R, d, commits) == NoCommits(R, d, commits) /\ R # "part_001"

\* the strings the loop body pushes to result.errors
DayErrors(R, d, commits) ==
    (IF NoCommits(R, d, commits) THEN <<Err("NoCommits", d, "", "")>> ELSE <<>>)
    \o (IF R = "part_001" THEN <<Err("Debug", d, "", "")>> ELSE <<>>)

\* the day's entries and totalHours before the normalization block
Allocate(R, d, commits, emailTasks, calendarTasks, events, det, sprint) ==
    IF SkipsDay(R, d, commits) THEN EmptyDay
    ELSE IF R = "part_001"
    THEN AllocateCalendar(d, DayCommits(R, d, commits), emailTasks, calendarTasks,
                          events, det, sprint)
    ELSE AllocateEarly(R, d, DayCommits(R, d, commits), emailTasks, det, sprint)

\* the timesheetDay pushed to result.days (thrown: the loop body threw)
DayOutcome(R, d, commits, emailTasks, calendarTasks, events, det, sprint) ==
    LET pre == Allocate(R, d, commits, emailTasks, calendarTasks, events, det, sprint)
    IN  IF pre.thrown \/ SkipsDay(R, d, commits) THEN pre ELSE Normalize(R, pre)

TimesheetDay(d, acc) ==
    [date |-> d, dayOfWeek |-> DayNames[d], entries |-> acc.entries,
     totalHours |-> acc.totalHours]

-----------------------------------------------------------------------------
(* generateTimesheet: the call as a state machine.  A run is the record     *)
(* [pc, dryRun, day, entry, result, calls, error]: pc is "scan" (before     *)
(* scanGitRepos), "collect", "day" (at the head of the loop body for day),  *)
(* "submit" (before createWorklog for entry of day), "done" (returned) or   *)
(* "thrown" (rejected, error says with what); calls is the history of       *)
(* createWorklog calls.                                                     *)

NewRun(dry) ==
    [pc |-> "scan", dryRun |-> dry, day |-> 1, entry |-> 1,
     result |-> [days |-> <<>>, worklogsCreated |-> 0, errors |-> <<>>],
     calls |-> <<>>, error |-> ""]

Idle == [pc |-> "idle"]

\* a scan that takes a missing directory for a directory to collect from
ScanStepLenient(r, found) ==
    IF found = "none"
    THEN [r EXCEPT !.pc = "done",
                   !.result.errors = Append(@, Err("NoRepos", 0, "", ""))]
    ELSE [r EXCEPT !.pc = "collect"]

\* scanGitRepos and the early return: found is "missing" (the directory does
\* not exist: throws), "none" (no repository) or "some"
ScanStep(r, found) ==
    IF found = "missing"
    THEN [r EXCEPT !.pc = "thrown", !.error = "Directory does not exist"]
    ELSE IF found = "none"
    THEN [r EXCEPT !.pc = "done",
                   !.result.errors = Append(@, Err("NoRepos", 0, "", ""))]
    ELSE [r EXCEPT !.pc = "collect"]

\* for (const { date, dayOfWeek } of workDates): the next iteration, or return
NextDay(r) ==
    IF r.day = 4 THEN [r EXCEPT !.pc = "done"]
    ELSE [r EXCEPT !.pc = "day", !.day = @ + 1, !.entry = 1]

\* a loop body that submits a day only when the next day has been pushed
DayStepLate(r, out, errors) ==
    IF out.thrown THEN [r EXCEPT !.pc = "thrown", !.error = "Jira API error"]
    ELSE LET pushed == [r EXCEPT !.result.errors = @ \o errors,
                                 !.result.days = Append(@, TimesheetDay(r.day, out))]
         IN  IF ~r.dryRun /\ r.day > 1 /\ r.result.days[r.day - 1].entries # <<>>
             THEN [pushed EXCEPT !.pc = "submit", !.day = @ - 1, !.entry = 1]
             ELSE NextDay(pushed)

\* the loop body up to the submission: errors pushed, the day pushed, then the
\* worklog loop when the run is not dry
DayStep(r, out, errors) ==
    IF out.thrown THEN [r EXCEPT !.pc = "thrown", !.error = "Jira API error"]
    ELSE LET pushed == [r EXCEPT !.result.errors = @ \o errors,
                                 !.result.days = Append(@, TimesheetDay(r.day, out))]
         IN  IF ~r.dryRun /\ out.entries # <<>>
             THEN [pushed EXCEPT !.pc = "submit", !.entry = 1]
             ELSE NextDay(pushed)

\* a submission loop that takes a refused entry out of the plan
SubmitStepPruning(r, outcome) ==
    LET entry == r.result.days[r.day].entries[r.entry]
        call == [issueKey |-> entry.issueKey, timeSpentHours |-> entry.hours,
                 date |-> r.day, description |-> entry.description,
                 outcome |-> outcome]
        called == [r EXCEPT !.calls = Append(@, call)]
        counted ==
            IF outcome = "ok"
            THEN [called EXCEPT !.result.worklogsCreated = @ + 1]
            ELSE [called EXCEPT
                    !.result.errors =
                        Append(@, Err("WorklogFailed", r.day, entry.issueKey, outcome)),
                    !.result.days[r.day].entries[r.entry].hours = 0]
    IN  IF r.entry < Len(r.result.days[r.day].entries)
        THEN [counted EXCEPT !.entry = @ + 1]
        ELSE NextDay(counted)

\* a submission loop that a failure ends ("break" in the catch block)
SubmitStepBreaking(r, outcome) ==
    LET entry == r.result.days[r.day].entries[r.entry]
        call == [issueKey |-> entry.issueKey, timeSpentHours |-> entry.hours,
                 date |-> r.day, description |-> entry.description,
                 outcome |-> outcome]
        called == [r EXCEPT !.calls = Append(@, call)]
    IN  IF outcome # "ok"
        THEN NextDay([called EXCEPT !.result.errors =
                        Append(@, Err("WorklogFailed", r.day, entry.issueKey, outcome))])
        ELSE IF r.entry < Len(r.result.days[r.day].entries)
        THEN [called EXCEPT !.result.worklogsCreated = @ + 1, !.entry = @ + 1]
        ELSE NextDay([called EXCEPT !.result.worklogsCreated = @ + 1])

\* a submission loop that counts every attempt as a worklog created
SubmitStepCountingAttempts(r, outcome) ==
    LET entry == r.result.days[r.day].entries[r.entry]
        call == [issueKey |-> entry.issueKey, timeSpentHours |-> entry.hours,
                 date |-> r.day, description |-> entry.description,
                 outcome |-> outcome]
        called == [r EXCEPT !.calls = Append(@, call),
                            !.result.worklogsCreated = @ + 1]
        counted ==
            IF outcome = "ok" THEN called
            ELSE [called EXCEPT !.result.errors =
                     Append(@, Err("WorklogFailed", r.day, entry.issueKey, outcome))]
    IN  IF r.entry < Len(r.result.days[r.day].entries)
        THEN [counted EXCEPT !.entry = @ + 1]
        ELSE NextDay(counted)

\* one iteration of "for (const entry of timesheetDay.entries)": createWorklog
\* in try / catch; outcome is "ok" or the reason of the failure
SubmitStep(r, outcome) ==
    LET entry == r.result.days[r.day].entries[r.entry]
        call == [issueKey |-> entry.issueKey, timeSpentHours |-> entry.hours,
                 date |-> r.day, description |-> entry.description,
                 outcome |-> outcome]
        called == [r EXCEPT !.calls = Append(@, call)]
        counted ==
            IF outcome = "ok"
            THEN [called EXCEPT !.result.worklogsCreated = @ + 1]
            ELSE [called EXCEPT !.result.errors =
                     Append(@, Err("WorklogFailed", r.day, entry.issueKey, outcome))]
    IN  IF r.entry < Len(r.result.days[r.day].entries)
        THEN [counted EXCEPT !.entry = @ + 1]
        ELSE NextDay(counted)

-----------------------------------------------------------------------------
(* What the collaborators may answer *)

\* git log: the commits of the week-level runs
KeyedCommit ==
    [issueKeys |-> <<"ABC-1">>, project |-> "webapp", linesChanged |-> 40,
     message |-> <<"Login", "page">>]

KeylessCommit ==
    [issueKeys |-> <<>>, project |-> "webapp", linesChanged |-> 10,
     message |-> <<"Cleanup">>]

RECURSIVE SeqsUpTo(_, _)
SeqsUpTo(S, n) ==
    IF n = 0 THEN {<<>>}
    ELSE LET shorter == SeqsUpTo(S, n - 1)
         IN  shorter \cup {Append(q, x) : q \in shorter, x \in S}

\* matchEmailsToJiraIssues / matchCalendarEventsToJiraIssues: a match of the week
MailMatches ==
    {[issueKey |-> "XYZ-1", confidence |-> "high", subject |-> <<"Invoice">>],
     [issueKey |-> "XYZ-1", confidence |-> "low", subject |-> <<"Invoice">>],
     [issueKey |-> "", confidence |-> "low", subject |-> <<"Lunch">>]}

DailyEvent == [title |-> <<"Daily">>, durationMinutes |-> 15, attendeeProject |-> ""]

ReviewEvent == [title |-> <<"XYZ", "Demo">>, durationMinutes |-> 60,
                attendeeProject |-> ""]

CalendarMatches ==
    {[issueKey |-> "XYZ-1", confidence |-> "medium", event |-> ReviewEvent],
     [issueKey |-> "", confidence |-> "low", event |-> ReviewEvent]}

\* if (match.issueKey && match.confidence !== "low")
KeepMatches(matches) ==
    SelectSeq(matches, LAMBDA m : m.issueKey # "" /\ m.confidence # "low")

\* getIssueDetails: the lookup failed (storyPoints null, summary ""), or an answer
FailedDetails == [storyPoints |-> NullPoints, summary |-> <<>>]

DetailAnswers == {FailedDetails, [storyPoints |-> 3, summary |-> <<"Login", "page">>]}

\* findSprintMeetingsIssue(project): throws, finds nothing, or finds an issue
SprintAnswers(project) ==
    {"fail", "none",
     CASE project = "XYZ" -> "XYZ-9" [] project = "BS" -> "BS-9" [] OTHER -> "ABC-9"}

\* the issues getIssueDetails is asked about while the day is allocated
DetailKeys(R, d, commits, emailTasks) ==
    IF R = "src" \/ SkipsDay(R, d, commits) THEN {}
    ELSE Range(IssueKeys(DayCommits(R, d, commits)))
         \cup (IF R = "part_000"
               THEN {emailTasks[i].issueKey : i \in DOMAIN emailTasks} ELSE {})

\* the projects findSprintMeetingsIssue may be asked about on the day
SprintProjects(R, d, commits, events) ==
    LET main == MainProject(R, DayCommits(R, d, commits))
    IN  IF SkipsDay(R, d, commits) THEN {}
        ELSE IF R = "part_001"
        THEN {MeetingProject(events[i], main) : i \in DOMAIN events}
        ELSE {main} \ {""}

FailReasons == {"Account not found", "Issue not found"}

Failures(r) == Cardinality({i \in DOMAIN r.calls : r.calls[i].outcome # "ok"})

-----------------------------------------------------------------------------
(* Spec: one generateTimesheet call *)

NoSignals == [d \in 1..4 |-> <<>>]

Init ==
    /\ server = Idle
    /\ sources = Idle
    /\ rev \in Revisions
    /\ commitsByDate = NoSignals
    /\ emailTasksByDate = NoSignals
    /\ calendarTasksByDate = NoSignals
    /\ calendarEventsByDate = NoSignals
    /\ \E dry \in BOOLEAN : run = NewRun(dry)
    /\ twin = Idle
    /\ cw = Idle
    /\ mt = Idle
    /\ dy = Idle

\* the evidence of a week: commits, mail matches and calendar matches by date
EmptyWeek ==
    [commits |-> NoSignals, mails |-> NoSignals, meets |-> NoSignals,
     events |-> NoSignals]

\* what one more piece of evidence on day d makes of the week
MoreEvidence(R, week, d) ==
    {[week EXCEPT !.commits[d] = Append(@, c)] : c \in {KeyedCommit, KeylessCommit}}
    \cup (IF R = "src" THEN {}
          ELSE {[week EXCEPT !.mails[d] = Append(@, m)] : m \in MailMatches})
    \cup (IF R = "part_001"
          THEN {[week EXCEPT !.meets[d] = Append(@, m)] : m \in CalendarMatches}
               \cup {[week EXCEPT !.events[d] = Append(@, DailyEvent)]}
          ELSE {})

RECURSIVE WeeksUpTo(_, _)
WeeksUpTo(R, n) ==
    IF n = 0 THEN {EmptyWeek}
    ELSE LET fewer == WeeksUpTo(R, n - 1)
         IN  fewer \cup UNION {MoreEvidence(R, week, d) : week \in fewer, d \in 1..4}

ScanRepos ==
    /\ run.pc = "scan"
    /\ \E found \in {"missing", "none", "some"} : run' = ScanStep(run, found)
    /\ UNCHANGED <<server, sources, rev, evidence, twin, cw, mt, dy>>

\* getGitCommits per repository, grouped by date; getEmails and
\* getCalendarEvents for the week, matched and filtered
CollectEvidence ==
    /\ run.pc = "collect"
    /\ \E week \in WeeksUpTo(rev, MaxWeekEvidence) :
          /\ commitsByDate' = week.commits
          /\ emailTasksByDate' = [d \in 1..4 |-> KeepMatches(week.mails[d])]
          /\ calendarTasksByDate' = [d \in 1..4 |-> KeepMatches(week.meets[d])]
          /\ calendarEventsByDate' = week.events
    /\ run' = [run EXCEPT !.pc = "day"]
    /\ UNCHANGED <<server, sources, rev, twin, cw, mt, dy>>

\* the outcomes of day d over the answers the collaborators may give while
\* the day is allocated
DayOutcomes(R, d) ==
    {DayOutcome(R, d, commitsByDate[d], emailTasksByDate[d], calendarTasksByDate[d],
                calendarEventsByDate[d], det, sprint) :
        det \in [DetailKeys(R, d, commitsByDate[d], emailTasksByDate[d])
                   -> DetailAnswers],
        sprint \in {answers \in
                       [SprintProjects(R, d, commitsByDate[d], calendarEventsByDate[d])
                          -> UNION {SprintAnswers(p) : p \in {"ABC", "XYZ", "BS", "webapp"}}] :
                       \A p \in DOMAIN answers : answers[p] \in SprintAnswers(p)}}

ProcessDay ==
    /\ run.pc = "day"
    /\ \E out \in DayOutcomes(rev, run.day) :
          run' = DayStep(run, out, DayErrors(rev, run.day, commitsByDate[run.day]))
    /\ UNCHANGED <<server, sources, rev, evidence, twin, cw, mt, dy>>

SubmitEntry ==
    /\ run.pc = "submit"
    /\ \E outcome \in {"ok"} \cup FailReasons :
          /\ outcome # "ok" => Failures(run) < MaxFailures
          /\ run' = SubmitStep(run, outcome)
    /\ UNCHANGED <<server, sources, rev, evidence, twin, cw, mt, dy>>

Next == ScanRepos \/ CollectEvidence \/ ProcessDay \/ SubmitEntry

Spec == Init /\ [][Next]_vars

-----------------------------------------------------------------------------
(* SpecPair: the same call twice, run with dryRun = false and twin with       *)
(* dryRun = true, on the same evidence and the same answers of the          *)
(* collaborators.  The twin waits at the head of a day while run submits.   *)

InitPair ==
    /\ server = Idle
    /\ sources = Idle
    /\ rev \in Revisions
    /\ commitsByDate = NoSignals
    /\ emailTasksByDate = NoSignals
    /\ calendarTasksByDate = NoSignals
    /\ calendarEventsByDate = NoSignals
    /\ run = NewRun(FALSE)
    /\ twin = NewRun(TRUE)
    /\ cw = Idle
    /\ mt = Idle
    /\ dy = Idle

PairScan ==
    /\ run.pc = "scan" /\ twin.pc = "scan"
    /\ \E found \in {"missing", "none", "some"} :
          run' = ScanStep(run, found) /\ twin' = ScanStep(twin, found)
    /\ UNCHANGED <<server, sources, rev, evidence, cw, mt, dy>>

PairCollect ==
    /\ run.pc = "collect" /\ twin.pc = "collect"
    /\ \E week \in WeeksUpTo(rev, MaxWeekEvidence) :
          /\ commitsByDate' = week.commits
          /\ emailTasksByDate' = [d \in 1..4 |-> KeepMatches(week.mails[d])]
          /\ calendarTasksByDate' = [d \in 1..4 |-> KeepMatches(week.meets[d])]
          /\ calendarEventsByDate' = week.events
    /\ run' = [run EXCEPT !.pc = "day"]
    /\ twin' = [twin EXCEPT !.pc = "day"]
    /\ UNCHANGED <<server, sources, rev, cw, mt, dy>>

PairDay ==
    /\ run.pc = "day" /\ twin.pc = "day" /\ run.day = twin.day
    /\ \E out \in DayOutcomes(rev, run.day) :
          /\ run' = DayStep(run, out, DayErrors(rev, run.day, commitsByDate[run.day]))
          /\ twin' = DayStep(twin, out, DayErrors(rev, run.day, commitsByDate[run.day]))
    /\ UNCHANGED <<server, sources, rev, evidence, cw, mt, dy>>

PairSubmit ==
    /\ run.pc = "submit"
    /\ \E outcome \in {"ok"} \cup FailReasons :
          /\ outcome # "ok" => Failures(run) < MaxFailures
          /\ run' = SubmitStep(run, outcome)
    /\ UNCHANGED <<server, sources, rev, evidence, twin, cw, mt, dy>>

NextPair == PairScan \/ PairCollect \/ PairDay \/ PairSubmit

SpecPair == InitPair /\ [][NextPair]_vars

\* C6: on the same inputs and the same answers of the collaborators, the call
\* with dryRun = true makes no createWorklog call, returns worklogsCreated = 0
\* and returns the same days (entries, hours, descriptions) as the call with
\* dryRun = false; and it ends the way that call ends.
C6_DryRunSamePlanNoWorklogs ==
    /\ twin.calls = <<>>
    /\ twin.result.worklogsCreated = 0
    /\ run.pc \in {"done", "thrown"} =>
          /\ twin.pc = run.pc
          /\ twin.result.days = run.result.days

\* C6 witness: both calls have returned a week with entries, the call with
\* dryRun = false has created a worklog and was refused another
C6_Witness ==
    /\ run.pc = "done" /\ twin.pc = "done"
    /\ run.result.worklogsCreated > 0
    /\ \E i \in DOMAIN run.calls : run.calls[i].outcome # "ok"
    /\ \E d \in DOMAIN twin.result.days : twin.result.days[d].entries # <<>>

-----------------------------------------------------------------------------
(* SpecDay: one iteration of the day loop on its own, on richer days *)

ApiCommit ==
    [issueKeys |-> <<"ABC-2">>, project |-> "api", linesChanged |-> 40,
     message |-> <<"Fix", "export">>]

MultiCommit ==
    [issueKeys |-> <<"ABC-1", "ABC-2", "XYZ-1">>, project |-> "webapp",
     linesChanged |-> 30, message |-> <<"Daily", "fixes">>]

DayCommitKinds == {KeyedCommit, ApiCommit, MultiCommit, KeylessCommit}

DayDetailAnswers ==
    DetailAnswers \cup {[storyPoints |-> 8, summary |-> <<"Daily", "export">>]}

DayMailTasks ==
    {<<>>, <<[issueKey |-> "XYZ-1", confidence |-> "high", subject |-> <<"Invoice">>]>>}

DayCalendarTasks ==
    {<<>>, <<[issueKey |-> "XYZ-1", confidence |-> "medium", event |-> ReviewEvent]>>}

InitDay ==
    /\ server = Idle
    /\ sources = Idle
    /\ rev \in Revisions
    /\ commitsByDate = NoSignals
    /\ emailTasksByDate = NoSignals
    /\ calendarTasksByDate = NoSignals
    /\ calendarEventsByDate = NoSignals
    /\ run = Idle
    /\ twin = Idle
    /\ cw = Idle
    /\ mt = Idle
    /\ \E d \in 1..4, commits \in SeqsUpTo(DayCommitKinds, MaxCommitsPerDay),
          mails \in DayMailTasks, meets \in DayCalendarTasks,
          events \in {<<>>, <<DailyEvent>>} :
          dy = [pc |-> "allocate", d |-> d, commits |-> commits,
                emailTasks |-> IF rev = "src" THEN <<>> ELSE mails,
                calendarTasks |-> IF rev = "part_001" THEN meets ELSE <<>>,
                events |-> IF rev = "part_001" THEN events ELSE <<>>,
                det |-> <<>>, sprint |-> <<>>, pre |-> EmptyDay,
                day |-> TimesheetDay(d, EmptyDay)]

\* the loop body from the head of the iteration to the normalization block
AllocateDay ==
    /\ dy.pc = "allocate"
    /\ \E det \in [DetailKeys(rev, dy.d, dy.commits, dy.emailTasks) -> DayDetailAnswers] :
       \E sprint \in [SprintProjects(rev, dy.d, dy.commits, dy.events)
                        -> UNION {SprintAnswers(p) : p \in {"ABC", "XYZ", "BS", "webapp"}}] :
          /\ \A p \in DOMAIN sprint : sprint[p] \in SprintAnswers(p)
          /\ LET pre == Allocate(rev, dy.d, dy.commits, dy.emailTasks,
                                 dy.calendarTasks, dy.events, det, sprint)
             IN  dy' = [dy EXCEPT !.det = det, !.sprint = sprint, !.pre = pre,
                                  !.day = TimesheetDay(dy.d, pre),
                                  !.pc = IF pre.thrown THEN "thrown"
                                         ELSE IF SkipsDay(rev, dy.d, dy.commits)
                                         THEN "emitted" ELSE "normalize"]
    /\ UNCHANGED <<server, sources, rev, evidence, run, twin, cw, mt>>

\* the normalization block and result.days.push(timesheetDay)
NormalizeDay ==
    /\ dy.pc = "normalize"
    /\ dy' = [dy EXCEPT !.day = TimesheetDay(dy.d, Normalize(rev, dy.pre)),
                        !.pc = "emitted"]
    /\ UNCHANGED <<server, sources, rev, evidence, run, twin, cw, mt>>

NextDayLoop == AllocateDay \/ NormalizeDay

SpecDay == InitDay /\ [][NextDayLoop]_vars

\* C1: every emitted day with at least one entry has, after normalization,
\* entries whose hours sum to exactly 8 h, and totalHours of 8 h, whatever the
\* commits, story points, matched e-mails and calendar events of the day.
C1_EmittedDayIsEightHours ==
    (dy.pc = "emitted" /\ dy.day.entries # <<>>) =>
        SumHours(dy.day.entries) = 800 /\ dy.day.totalHours = 800

\* C2: every entry of an emitted day has hours that are a positive multiple of
\* 0.25 h.
C2_HoursOnQuarterGrid ==
    dy.pc = "emitted" =>
        \A i \in DOMAIN dy.day.entries :
            dy.day.entries[i].hours >= 25 /\ dy.day.entries[i].hours % 25 = 0

-----------------------------------------------------------------------------
(* SpecCreate: one createWorklog call.  The call is the record                *)
(* [pc, issueKey, accountKey, activeAccount, posts, error]: pc is "prepare"  *)
(* (initialize, getIssueId, getCurrentUserAccountId, getIssueAccount),       *)
(* "post" (the first tryCreateWorklog), "lookup" (findActiveProjectAccount), *)
(* "retry" (the second tryCreateWorklog), "returned" or "thrown"; posts is   *)
(* the history of POST /worklogs requests with their outcomes, an outcome    *)
(* being <<"ok">> or the words of the error.                                 *)

Ok == <<"ok">>

\* text.includes(phrase)
IncludesPhrase(text, phrase) ==
    \E i \in 1..(Len(text) - Len(phrase) + 1) :
        SubSeq(text, i, i + Len(phrase) - 1) = phrase

TempoErrors ==
    {<<"Tempo", "API", "error", "(400):", "Account", "not", "found">>,
     <<"Tempo", "API", "error", "(400):", "Account", "is", "closed", "or", "archived">>,
     <<"Tempo", "API", "error", "(404):", "Issue", "not", "found">>}

JiraError == <<"Jira", "API", "error", "(500)">>

Accounts == {"ACC-OLD", "ACC-NEW"}

NewCreate(issueKey, accountKey) ==
    [pc |-> "prepare", issueKey |-> issueKey, accountKey |-> accountKey,
     activeAccount |-> "", posts |-> <<>>, error |-> <<>>]

\* the lookups before the first attempt: any of them may throw; accountKey is
\* params.accountKey, or else what getIssueAccount gives (null: "")
PrepareStep(c, ok, issueAccount) ==
    IF ~ok THEN [c EXCEPT !.pc = "thrown", !.error = JiraError]
    ELSE [c EXCEPT !.pc = "post",
                   !.accountKey = IF @ # "" THEN @ ELSE issueAccount]

\* errorMsg.includes("Account not found") ||
\* errorMsg.includes("Account is closed or archived")
IsAccountError(errorMsg) ==
    \/ IncludesPhrase(errorMsg, <<"Account", "not", "found">>)
    \/ IncludesPhrase(errorMsg, <<"Account", "is", "closed", "or", "archived">>)

\* try { return await tryCreateWorklog(accountKey) } catch (error) { ... }
PostStep(c, outcome) ==
    LET posted == [c EXCEPT !.posts = Append(@, [account |-> c.accountKey,
                                                 outcome |-> outcome])]
    IN  IF outcome = Ok THEN [posted EXCEPT !.pc = "returned"]
        ELSE IF IsAccountError(outcome)
        THEN [posted EXCEPT !.pc = "lookup", !.error = outcome]
        ELSE [posted EXCEPT !.pc = "thrown", !.error = outcome]

\* findActiveProjectAccount(projectKey, excludeAccount): the account of the
\* first issue of the search that has one other than excludeAccount, or null
FindActiveProjectAccount(issueAccounts, excludeAccount) ==
    LET hits == {i \in DOMAIN issueAccounts :
                    issueAccounts[i] # "" /\ issueAccounts[i] # excludeAccount}
    IN  IF hits = {} THEN ""
        ELSE issueAccounts[CHOOSE i \in hits : \A j \in hits : i <= j]

\* the catch block after an account error: the search may throw (found is
\* FALSE); with an alternate account the call retries, without one it rethrows
LookupStep(c, found, issueAccounts) ==
    LET activeAccount == FindActiveProjectAccount(issueAccounts, c.accountKey)
    IN  IF ~found THEN [c EXCEPT !.pc = "thrown", !.error = JiraError]
        ELSE IF activeAccount # "" /\ activeAccount # c.accountKey
        THEN [c EXCEPT !.pc = "retry", !.activeAccount = activeAccount]
        ELSE [c EXCEPT !.pc = "thrown"]

\* a second attempt that treats its own account error like the first one
RetryStepAgain(c, outcome) ==
    LET posted == [c EXCEPT !.posts = Append(@, [account |-> c.activeAccount,
                                                 outcome |-> outcome])]
    IN  IF outcome = Ok THEN [posted EXCEPT !.pc = "returned", !.error = <<>>]
        ELSE IF IsAccountError(outcome)
        THEN [posted EXCEPT !.pc = "retry", !.error = outcome]
        ELSE [posted EXCEPT !.pc = "thrown", !.error = outcome]

\* return await tryCreateWorklog(activeAccount) inside the catch block
RetryStep(c, outcome) ==
    LET posted == [c EXCEPT !.posts = Append(@, [account |-> c.activeAccount,
                                                 outcome |-> outcome])]
    IN  IF outcome = Ok THEN [posted EXCEPT !.pc = "returned", !.error = <<>>]
        ELSE [posted EXCEPT !.pc = "thrown", !.error = outcome]

InitCreate ==
    /\ server = Idle
    /\ sources = Idle
    /\ rev \in Revisions
    /\ commitsByDate = NoSignals
    /\ emailTasksByDate = NoSignals
    /\ calendarTasksByDate = NoSignals
    /\ calendarEventsByDate = NoSignals
    /\ run = Idle
    /\ twin = Idle
    /\ mt = Idle
    /\ dy = Idle
    /\ \E issueKey \in {"ABC-1", "XYZ-1"}, accountKey \in Accounts \cup {""} :
          cw = NewCreate(issueKey, accountKey)

Prepare ==
    /\ cw.pc = "prepare"
    /\ \E ok \in BOOLEAN, issueAccount \in Accounts \cup {""} :
          cw' = PrepareStep(cw, ok, issueAccount)
    /\ UNCHANGED <<server, sources, rev, evidence, run, twin, mt, dy>>

FirstPost ==
    /\ cw.pc = "post"
    /\ \E outcome \in {Ok} \cup TempoErrors : cw' = PostStep(cw, outcome)
    /\ UNCHANGED <<server, sources, rev, evidence, run, twin, mt, dy>>

FindAccount ==
    /\ cw.pc = "lookup"
    /\ \E found \in BOOLEAN,
          issueAccounts \in SeqsUpTo(Accounts \cup {""}, MaxIssuesFound) :
          cw' = LookupStep(cw, found, issueAccounts)
    /\ UNCHANGED <<server, sources, rev, evidence, run, twin, mt, dy>>

SecondPost ==
    /\ cw.pc = "retry"
    /\ \E outcome \in {Ok} \cup TempoErrors : cw' = RetryStep(cw, outcome)
    /\ UNCHANGED <<server, sources, rev, evidence, run, twin, mt, dy>>

NextCreate == Prepare \/ FirstPost \/ FindAccount \/ SecondPost

SpecCreate == InitCreate /\ [][NextCreate]_vars

AccountErrorText(errorMsg) ==
    \/ errorMsg = <<"Tempo", "API", "error", "(400):", "Account", "not", "found">>
    \/ errorMsg = <<"Tempo", "API", "error", "(400):", "Account", "is", "closed",
                    "or", "archived">>

\* C9: one createWorklog call posts at most twice.  A second POST happens only
\* after the first failed with an account-not-found or account-closed/archived
\* error and an alternate account other than the first was found; it carries
\* that account, and nothing is posted after it.  Any other failure of the
\* first POST is thrown to the caller as it is, with no second POST.
C9_AtMostOneRetryWithAlternateAccount ==
    /\ Len(cw.posts) <= 2
    /\ Len(cw.posts) = 2 =>
          /\ AccountErrorText(cw.posts[1].outcome)
          /\ cw.activeAccount # ""
          /\ cw.posts[2].account = cw.activeAccount
          /\ cw.posts[2].account # cw.posts[1].account
          /\ cw.pc \in {"returned", "thrown"}
    /\ (Len(cw.posts) >= 1 /\ cw.posts[1].outcome # Ok
          /\ ~AccountErrorText(cw.posts[1].outcome)) =>
          /\ Len(cw.posts) = 1
          /\ cw.pc = "thrown"
          /\ cw.error = cw.posts[1].outcome

\* C9 witness: the first POST was refused for a closed account, an alternate
\* account was found, and the second POST, with that account, succeeded
C9_Witness ==
    /\ cw.pc = "returned"
    /\ Len(cw.posts) = 2
    /\ cw.posts[2].outcome = Ok
    /\ cw.posts[2].account = "ACC-NEW"
    /\ cw.posts[1].account = "ACC-OLD"

-----------------------------------------------------------------------------
(* SpecMatch: the matcher on one signal (a sent or received e-mail, or a     *)
(* calendar event).  Texts are sequences of words without separator          *)
(* characters; toLowerCase, length and includes on words are tables over    *)
(* the vocabulary.  Scores are fractions [num, den].                         *)

Lower(w) ==
    CASE w = "Invoice" -> "invoice" [] w = "Login" -> "login"
      [] w = "RE" -> "re" [] w = "Lunch" -> "lunch" [] OTHER -> w

WordLength(w) ==
    CASE Lower(w) \in {"re", "42", "ui"} -> 2
      [] Lower(w) = "the" -> 3
      [] Lower(w) = "page" -> 4
      [] Lower(w) \in {"login", "lunch", "ABC-1", "XYZ-1"} -> 5
      [] Lower(w) = "export" -> 6
      [] Lower(w) = "invoice" -> 7
      [] OTHER -> 8

\* word.includes(other)
WordIncludes(word, other) ==
    word = other \/ (word = "invoices" /\ other = "invoice")

IsDigits(w) == w = "42"

\* /([A-Z][A-Z0-9]+-\d+)/g on a text: the issue keys in it, in order
IssueKeysIn(text) == SelectSeq(text, LAMBDA w : w \in {"ABC-1", "XYZ-1"})

StopWords ==
    {"re", "fwd", "fw", "the", "and", "for", "from", "with", "about", "this",
     "that", "have", "has", "had", "been", "will", "would", "could", "should",
     "can", "may", "une", "des", "les", "pour", "dans", "sur", "avec", "est",
     "sont", "qui", "que", "vous", "nous", "votre", "notre", "merci", "bonjour",
     "salut", "cordialement"}

ExtractKeywords(text) ==
    SelectSeq([i \in DOMAIN text |-> Lower(text[i])],
              LAMBDA w : WordLength(w) > 2 /\ w \notin StopWords /\ ~IsDigits(w))

Fraction(num, den) == [num |-> num, den |-> den]

Greater(a, b) == a.num * b.den > b.num * a.den

Plus(a, b) == Fraction(a.num * b.den + b.num * a.den, a.den * b.den)

\* matches / Math.min(set1.size, set2.size), matches counted in halves
CalculateSimilarity(keywords1, keywords2) ==
    IF keywords1 = <<>> \/ keywords2 = <<>> THEN Fraction(0, 1)
    ELSE LET set1 == Range(keywords1)
             set2 == Range(keywords2)
             exact == set1 \cap set2
             partial == {w \in set1 \ set2 :
                            \E w2 \in set2 : WordIncludes(w, w2) \/ WordIncludes(w2, w)}
             smaller == IF Cardinality(set1) < Cardinality(set2)
                        THEN Cardinality(set1) ELSE Cardinality(set2)
         IN  Fraction(2 * Cardinality(exact) + Cardinality(partial), 2 * smaller)

\* totalScore > 0.3
Threshold == Fraction(3, 10)

\* projectBonus = matchedProject && issue.project === matchedProject.key ? 0.3 : 0
ProjectBonus(matchedProject, issue) ==
    IF matchedProject # "" /\ issue.project = matchedProject
    THEN Fraction(3, 10) ELSE Fraction(0, 1)

NoBest == [key |-> "", score |-> Fraction(0, 1)]

NotPushed == [issueKey |-> "", confidence |-> "", pushed |-> FALSE]

Pushed(issueKey, confidence) ==
    [issueKey |-> issueKey, confidence |-> confidence, pushed |-> TRUE]

SignalText(signal) == signal.subject \o signal.snippet

NewMatch(signal, pool, matchedProject) ==
    [pc |-> "start", signal |-> signal, pool |-> pool,
     matchedProject |-> matchedProject, i |-> 1, bestMatch |-> NoBest,
     match |-> NotPushed]

\* the head of the loop body: the filter on sent e-mails ("part_001"), the key
\* in the subject or title, the key in the body, then the keywords or the
\* search terms
KeyStep(R, m) ==
    LET subjectMatches == IssueKeysIn(m.signal.subject)
        bodyMatches == IssueKeysIn(m.signal.snippet)
        searchTerms == Take(SelectSeq(m.signal.subject, LAMBDA w : WordLength(w) > 3), 3)
    IN  IF R = "part_001" /\ m.signal.kind = "email" /\ ~m.signal.isSent
        THEN [m EXCEPT !.pc = "done"]
        ELSE IF subjectMatches # <<>>
        THEN [m EXCEPT !.pc = "done", !.match = Pushed(subjectMatches[1], "high")]
        ELSE IF bodyMatches # <<>>
        THEN [m EXCEPT !.pc = "done", !.match = Pushed(bodyMatches[1], "medium")]
        ELSE IF R = "part_001"
        THEN IF ExtractKeywords(SignalText(m.signal)) = <<>>
             THEN [m EXCEPT !.pc = "done"]
             ELSE [m EXCEPT !.pc = "score"]
        ELSE IF searchTerms = <<>>
        THEN [m EXCEPT !.pc = "done", !.match = Pushed("", "low")]
        ELSE [m EXCEPT !.pc = "search"]

\* "part_000": the Jira text search; response is "fail", "none" or the key of
\* the first issue Jira returns
SearchStep(m, response) ==
    IF response \in {"fail", "none"}
    THEN [m EXCEPT !.pc = "done", !.match = Pushed("", "low")]
    ELSE [m EXCEPT !.pc = "done", !.match = Pushed(response, "low")]

\* ScoreStep with "totalScore >= bestMatch.score": a later candidate of equal
\* score replaces the earlier one
ScoreStepLast(m) ==
    LET issue == m.pool[m.i]
        similarity == CalculateSimilarity(ExtractKeywords(SignalText(m.signal)),
                                          ExtractKeywords(issue.summary))
        totalScore == Plus(similarity, ProjectBonus(m.matchedProject, issue))
    IN  IF Greater(totalScore, Threshold)
           /\ (m.bestMatch.key = "" \/ ~Greater(m.bestMatch.score, totalScore))
        THEN [m EXCEPT !.i = @ + 1,
                       !.bestMatch = [key |-> issue.key, score |-> totalScore]]
        ELSE [m EXCEPT !.i = @ + 1]

\* "part_001": one iteration of "for (const issue of sprintIssues)"
ScoreStep(m) ==
    LET issue == m.pool[m.i]
        similarity == CalculateSimilarity(ExtractKeywords(SignalText(m.signal)),
                                          ExtractKeywords(issue.summary))
        totalScore == Plus(similarity, ProjectBonus(m.matchedProject, issue))
    IN  IF Greater(totalScore, Threshold)
           /\ (m.bestMatch.key = "" \/ Greater(totalScore, m.bestMatch.score))
        THEN [m EXCEPT !.i = @ + 1,
                       !.bestMatch = [key |-> issue.key, score |-> totalScore]]
        ELSE [m EXCEPT !.i = @ + 1]

\* "part_001": after the loop, if (bestMatch) matches.push(...)
BestStep(m) ==
    IF m.bestMatch.key = "" THEN [m EXCEPT !.pc = "done"]
    ELSE [m EXCEPT !.pc = "done",
                   !.match = Pushed(m.bestMatch.key,
                                    IF Greater(m.bestMatch.score, Fraction(1, 2))
                                    THEN "high" ELSE "medium")]

PoolIssues ==
    {[key |-> "ABC-1", summary |-> <<"Login", "page">>, project |-> "ABC"],
     [key |-> "XYZ-1", summary |-> <<"invoices", "export", "page">>, project |-> "XYZ"],
     [key |-> "XYZ-2", summary |-> <<"Invoice", "export">>, project |-> "XYZ"]}

Subjects ==
    {<<"RE", "Invoice", "42">>, <<"Invoice", "export">>, <<"ABC-1", "Login">>,
     <<"RE", "the", "ui">>, <<"Lunch">>}

Snippets == {<<>>, <<"XYZ-1", "export">>, <<"Login">>}

InitMatch ==
    /\ server = Idle
    /\ sources = Idle
    /\ rev \in {"part_000", "part_001"}
    /\ commitsByDate = NoSignals
    /\ emailTasksByDate = NoSignals
    /\ calendarTasksByDate = NoSignals
    /\ calendarEventsByDate = NoSignals
    /\ run = Idle
    /\ twin = Idle
    /\ cw = Idle
    /\ dy = Idle
    /\ \E subject \in Subjects, snippet \in Snippets, isSent \in BOOLEAN,
          kind \in (IF rev = "part_001" THEN {"email", "event"} ELSE {"email"}),
          pool \in SeqsUpTo(PoolIssues, MaxPool),
          matchedProject \in (IF rev = "part_001" THEN {"", "ABC", "XYZ"} ELSE {""}) :
          mt = NewMatch([kind |-> kind, subject |-> subject, snippet |-> snippet,
                         isSent |-> isSent \/ kind = "event"],
                        pool, matchedProject)

MatchKey ==
    /\ mt.pc = "start"
    /\ mt' = KeyStep(rev, mt)
    /\ UNCHANGED <<server, sources, rev, evidence, run, twin, cw, dy>>

SearchJira ==
    /\ mt.pc = "search"
    /\ \E response \in {"fail", "none"} \cup {mt.pool[i].key : i \in DOMAIN mt.pool} :
          mt' = SearchStep(mt, response)
    /\ UNCHANGED <<server, sources, rev, evidence, run, twin, cw, dy>>

ScoreIssue ==
    /\ mt.pc = "score"
    /\ mt.i <= Len(mt.pool)
    /\ mt' = ScoreStep(mt)
    /\ UNCHANGED <<server, sources, rev, evidence, run, twin, cw, dy>>

PushBest ==
    /\ mt.pc = "score"
    /\ mt.i > Len(mt.pool)
    /\ mt' = BestStep(mt)
    /\ UNCHANGED <<server, sources, rev, evidence, run, twin, cw, dy>>

NextMatch == MatchKey \/ SearchJira \/ ScoreIssue \/ PushBest

SpecMatch == InitMatch /\ [][NextMatch]_vars

\* the similarity of the signal with the issue of the pool that has the key
SimilarityWith(m, key) ==
    LET at == CHOOSE i \in DOMAIN m.pool : m.pool[i].key = key
    IN  CalculateSimilarity(ExtractKeywords(SignalText(m.signal)),
                            ExtractKeywords(m.pool[at].summary))

\* C10: for a signal without an explicit issue key, the matcher never returns
\* an issue key whose similarity with the signal is below the threshold 0.3.
C10_NoMatchBelowThreshold ==
    (/\ mt.pc = "done"
     /\ IssueKeysIn(SignalText(mt.signal)) = <<>>
     /\ mt.match.issueKey # "") =>
        ~Greater(Threshold, SimilarityWith(mt, mt.match.issueKey))

-----------------------------------------------------------------------------
(* Claims on one generateTimesheet call (Spec) *)

Emitted == run.result.days

\* the createWorklog calls a non-dry run has made once it stands at
\* (day, entry): every entry of every pushed day before that position
RECURSIVE EntriesUpTo(_, _, _)
EntriesUpTo(days, d, upto) ==
    IF d = 0 THEN <<>>
    ELSE EntriesUpTo(days, d - 1, Len(days[d - 1].entries))
         \o [i \in 1..upto |-> <<d, days[d].entries[i].issueKey, days[d].entries[i].hours>>]

CallTargets(calls) ==
    [i \in DOMAIN calls |-> <<calls[i].date, calls[i].issueKey, calls[i].timeSpentHours>>]

\* C3: a workday with zero commits is emitted with no entries and totalHours 0,
\* and result.errors holds the "No commits found" warning of that date; on each
\* of the four days, and also when e-mails or calendar events exist for the day.
C3_NoCommitDayIsEmpty ==
    \A d \in DOMAIN Emitted :
        commitsByDate[d] = <<>> =>
            /\ Emitted[d].entries = <<>>
            /\ Emitted[d].totalHours = 0
            /\ Err("NoCommits", d, "", "") \in Range(run.result.errors)

\* C4: whenever generateTimesheet returns a result, result.days holds exactly
\* the four days Monday to Thursday in that order, also when no git repository
\* is found or a day has no activity.
C4_FourDaysReturned ==
    run.pc = "done" =>
        /\ Len(Emitted) = 4
        /\ \A d \in 1..4 : Emitted[d].date = d /\ Emitted[d].dayOfWeek = DayNames[d]

\* C5: in a non-dry run every createWorklog failure leaves in result.errors a
\* string with the entry's issue key, its date and the reason, and the failure
\* stops nothing: whatever failed, createWorklog has been called, once and in
\* order, for every entry of every emitted day up to the position of the run.
C5_FailureRecordedAndSubmissionContinues ==
    ~run.dryRun =>
        /\ \A i \in DOMAIN run.calls :
              run.calls[i].outcome # "ok" =>
                  Err("WorklogFailed", run.calls[i].date, run.calls[i].issueKey,
                      run.calls[i].outcome) \in Range(run.result.errors)
        /\ CallTargets(run.calls) =
              IF Emitted = <<>> THEN <<>>
              ELSE EntriesUpTo(Emitted, Len(Emitted),
                               IF run.pc = "submit" THEN run.entry - 1
                               ELSE Len(Emitted[Len(Emitted)].entries))

\* C5 witness: a failed createWorklog call, followed by a call for a later entry
\* of the same day and by a call for an entry of a following day
C5_Witness ==
    /\ ~run.dryRun
    /\ \E i, j, k \in DOMAIN run.calls :
          /\ i < j /\ j < k
          /\ run.calls[i].outcome # "ok"
          /\ run.calls[j].date = run.calls[i].date
          /\ run.calls[k].date > run.calls[i].date

C8_LookupFailureDoesNotAbort ==
    ~(run.pc = "thrown" /\ run.error = "Jira API error")

\* the issue keys something names on day d: the commits of the day, the kept
\* matches, and ("src", "part_000") the meeting issues of the fixed meetings
NamedKeys(d) ==
    Range(IssueKeys(DayCommits(rev, d, commitsByDate[d])))
    \cup {emailTasksByDate[d][i].issueKey : i \in DOMAIN emailTasksByDate[d]}
    \cup {calendarTasksByDate[d][i].issueKey : i \in DOMAIN calendarTasksByDate[d]}
    \cup (IF rev = "part_001" THEN {}
          ELSE {MondayMeetingIssue} \cup (UNION {SprintAnswers(p) : p \in {"ABC", "XYZ", "BS"}}
                                          \ {"fail", "none"}))

\* C11: a signal without an explicit issue key and without a candidate clearing
\* the threshold produces no entry on any day and no string in result.errors:
\* every entry of an emitted day is on an issue named by a commit of the day or
\* by a kept match (or is a fixed meeting), and result.errors holds only the
\* warnings of the days and of the submission.
C11_UnmatchedSignalGivesNoEntry ==
    /\ \A d \in DOMAIN Emitted :
          \A i \in DOMAIN Emitted[d].entries :
              Emitted[d].entries[i].issueKey \in NamedKeys(d)
    /\ \A i \in DOMAIN run.result.errors :
          run.result.errors[i].kind \in {"NoRepos", "NoCommits", "Debug", "WorklogFailed"}

\* an entry of a fixed recurring meeting: the daily standup, the weekly team sync
IsFixedMeeting(entry) ==
    entry.description \in {<<"Daily">>, <<"Daily", "standup">>,
                           <<"Weekly", "team", "sync">>}

\* C12: normalization leaves the hours of every fixed recurring meeting entry
\* (daily standup, weekly team sync) as they were before it, and the entry that
\* takes the rounding residual after the scale pass is never such an entry.
C12_MeetingEntriesStayFixed ==
    (dy.pc = "emitted" /\ dy.day.entries # <<>>) =>
        \A i \in DOMAIN dy.day.entries :
            IsFixedMeeting(dy.pre.entries[i]) =>
                /\ dy.day.entries[i].hours = dy.pre.entries[i].hours
                /\ rev # "src" =>
                      dy.day.entries[i].hours
                         = ScaleEntries(dy.pre.entries, dy.pre.totalHours)[i].hours

-----------------------------------------------------------------------------
(* Claims on the matcher (SpecMatch) *)

\* similarity + projectBonus of the signal with the i-th candidate of the pool
TotalScoreOf(m, i) ==
    Plus(CalculateSimilarity(ExtractKeywords(SignalText(m.signal)),
                             ExtractKeywords(m.pool[i].summary)),
         ProjectBonus(m.matchedProject, m.pool[i]))

\* the candidates that clear the threshold with the highest total score
TopCandidates(m) ==
    {i \in DOMAIN m.pool :
        /\ Greater(TotalScoreOf(m, i), Threshold)
        /\ \A j \in DOMAIN m.pool : ~Greater(TotalScoreOf(m, j), TotalScoreOf(m, i))}

\* C13: when several candidates reach the same highest total score for a
\* signal, the match is the one that comes first in the candidate pool; the
\* match is a function of the signal and the pool: once every candidate has
\* been scored for a signal without explicit key, the key pushed is that of
\* the first top candidate, and nothing
\* is pushed when no candidate clears the threshold.
C13_TieGoesToFirstInPool ==
    (/\ mt.pc = "done" /\ rev = "part_001"
     /\ IssueKeysIn(SignalText(mt.signal)) = <<>>
     /\ mt.i = Len(mt.pool) + 1) =>
        IF TopCandidates(mt) = {} THEN ~mt.match.pushed
        ELSE /\ mt.match.pushed
             /\ mt.match.issueKey
                   = mt.pool[CHOOSE i \in TopCandidates(mt) :
                                \A j \in TopCandidates(mt) : i <= j].key

\* C13 witness: two candidates with different keys tie at the highest score
\* and the match is the first of them
C13_Witness ==
    /\ mt.pc = "done" /\ rev = "part_001" /\ mt.i = Len(mt.pool) + 1
    /\ \E i, j \in TopCandidates(mt) :
          /\ i < j
          /\ mt.pool[i].key # mt.pool[j].key
          /\ mt.match.pushed
          /\ mt.match.issueKey = mt.pool[i].key

\* C14: a signal whose title/subject contains an issue key is matched to the
\* first key of the title at confidence high, whatever keys the body holds; a
\* key found only in the body gives the first body key at confidence medium;
\* in both cases no candidate is scored and no search is made for the signal.
C14_ExplicitKeyWins ==
    LET subjectKeys == IssueKeysIn(mt.signal.subject)
        bodyKeys == IssueKeysIn(mt.signal.snippet)
    IN  /\ (mt.pc = "done" /\ subjectKeys # <<>>) =>
              mt.match = Pushed(subjectKeys[1], "high")
        /\ (mt.pc = "done" /\ subjectKeys = <<>> /\ bodyKeys # <<>>) =>
              mt.match = Pushed(bodyKeys[1], "medium")
        /\ (mt.pc # "start" /\ subjectKeys \o bodyKeys # <<>>) =>
              mt.pc = "done" /\ mt.i = 1 /\ mt.bestMatch = NoBest

-----------------------------------------------------------------------------
(* SpecCollect: a dry generateTimesheet call with its collection phase      *)
(* spelled out: the repositories found, the git log of each, the mail and   *)
(* the calendar source, then the day loop on what was collected             *)

MaxLogLines == 3

\* the repositories scanGitRepos may find, in readdirSync order
RepoNames == <<"webapp", "api">>

\* a "COMMIT|hash|date|subject" line ("hash|date|subject" in "src")
CommitLines ==
    {[kind |-> "commit", date |-> 1, subject |-> <<"ABC-1", "Login", "page">>],
     [kind |-> "commit", date |-> 2, subject |-> <<"Cleanup">>]}

\* a --shortstat line: the numbers before "insertion" and before "deletion",
\* each present or not; "src" asks for no stat
StatLines(R) ==
    IF R = "src" THEN {}
    ELSE {[kind |-> "stat", insertions |-> <<3>>, deletions |-> <<>>],
          [kind |-> "stat", insertions |-> <<45>>, deletions |-> <<12>>],
          [kind |-> "stat", insertions |-> <<>>, deletions |-> <<2>>]}

BlankLine == [kind |-> "blank"]

\* what git log prints for one commit: its line, then its stat line if any
LogBlocks(R) ==
    {<<c>> : c \in CommitLines}
    \cup {<<c, s>> : c \in CommitLines, s \in StatLines(R)}
    \cup {<<c, s, BlankLine>> : c \in CommitLines, s \in StatLines(R)}

RECURSIVE LogsUpTo(_, _)
LogsUpTo(R, n) ==
    {<<>>} \cup UNION {{b \o rest : rest \in LogsUpTo(R, n - Len(b))} :
                          b \in {block \in LogBlocks(R) : Len(block) <= n}}

\* execSync(git log): it throws, or gives the output
LogOutcomes(R, n) ==
    {[ok |-> FALSE, lines |-> <<>>]}
    \cup {[ok |-> TRUE, lines |-> lines] : lines \in LogsUpTo(R, n)}

\* the outcome of git log in each repository found
RepoSetups(R) ==
    {<<>>}
    \cup {<<o>> : o \in LogOutcomes(R, MaxLogLines)}
    \cup {pair \in LogOutcomes(R, MaxLogLines) \X LogOutcomes(R, MaxLogLines) :
              Len(pair[1].lines) + Len(pair[2].lines) <= MaxLogLines}

\* (\d+) insertion / (\d+) deletion: parseInt of the group, 0 without a match
Matched(group) == IF group = <<>> THEN 0 ELSE group[1]

\* the commit pushed for currentCommit; its message without the issue keys
NewCommit(R, current, projectName, linesChanged) ==
    LET keys == Unique(IssueKeysIn(current.subject))
        message == SelectSeq(current.subject, LAMBDA w : w \notin Range(keys))
    IN  IF R = "src"
        THEN [date |-> current.date, message |-> message, issueKeys |-> keys,
              project |-> projectName]
        ELSE [date |-> current.date, message |-> message, issueKeys |-> keys,
              project |-> projectName, linesChanged |-> linesChanged]

\* a stat line that forgets the floor of 10
StatCommitRaw(R, current, projectName, line) ==
    NewCommit(R, current, projectName,
              Matched(line.insertions) + Matched(line.deletions))

\* the commit pushed at a stat line: Math.max(linesChanged, 10)
StatCommit(R, current, projectName, line) ==
    NewCommit(R, current, projectName,
              Max(Matched(line.insertions) + Matched(line.deletions), 10))

NoCommit == [kind |-> "none"]

\* the loop over the lines of the output, then the last commit
RECURSIVE ParseLog(_, _, _, _, _, _)
ParseLog(R, lines, i, currentCommit, commits, projectName) ==
    IF i > Len(lines)
    THEN IF currentCommit # NoCommit
         THEN Append(commits, NewCommit(R, currentCommit, projectName, 10))
         ELSE commits
    ELSE IF lines[i].kind = "commit"
    THEN ParseLog(R, lines, i + 1, lines[i],
                  IF currentCommit # NoCommit
                  THEN Append(commits, NewCommit(R, currentCommit, projectName, 10))
                  ELSE commits,
                  projectName)
    ELSE IF currentCommit # NoCommit /\ lines[i].kind = "stat"
    THEN ParseLog(R, lines, i + 1, NoCommit,
                  Append(commits, StatCommit(R, currentCommit, projectName, lines[i])),
                  projectName)
    ELSE ParseLog(R, lines, i + 1, currentCommit, commits, projectName)

\* getGitCommits: the catch block gives no commit for the repository
GetGitCommits(R, projectName, outcome) ==
    IF ~outcome.ok \/ outcome.lines = <<>> THEN <<>>
    ELSE ParseLog(R, outcome.lines, 1, NoCommit, <<>>, projectName)

\* commitsByDate
GroupByDate(allCommits) ==
    [d \in 1..4 |-> SelectSeq(allCommits, LAMBDA c : c.date = d)]

SourceStatus == {"unconfigured", "unreachable", "ok"}

\* the matches of the week when the mail source answers
MailAnswer ==
    [d \in 1..4 |->
        IF d = 2
        THEN <<[issueKey |-> "XYZ-1", confidence |-> "high", subject |-> <<"Invoice">>],
               [issueKey |-> "", confidence |-> "low", subject |-> <<"Lunch">>]>>
        ELSE <<>>]

\* the matches of the week and the events of each day when the calendar answers
CalendarAnswer ==
    [tasks |-> [d \in 1..4 |->
                   IF d = 3
                   THEN <<[issueKey |-> "XYZ-1", confidence |-> "medium",
                           event |-> ReviewEvent]>>
                   ELSE <<>>],
     events |-> [d \in 1..4 |-> IF d = 1 THEN <<DailyEvent>> ELSE <<>>]]

InitCollect ==
    /\ server = Idle
    /\ rev \in Revisions
    /\ commitsByDate = NoSignals
    /\ emailTasksByDate = NoSignals
    /\ calendarTasksByDate = NoSignals
    /\ calendarEventsByDate = NoSignals
    /\ run = NewRun(TRUE)
    /\ twin = Idle
    /\ cw = Idle
    /\ mt = Idle
    /\ dy = Idle
    /\ \E repos \in RepoSetups(rev),
          mail \in (IF rev = "src" THEN {"unconfigured"} ELSE SourceStatus),
          calendar \in (IF rev = "part_001" THEN SourceStatus ELSE {"unconfigured"}) :
          sources = [pc |-> "logs", repos |-> repos, i |-> 1, allCommits |-> <<>>,
                     mail |-> mail, calendar |-> calendar]

\* scanGitRepos on an existing directory, and the early return
CollectScan ==
    /\ run.pc = "scan"
    /\ run' = ScanStep(run, IF sources.repos = <<>> THEN "none" ELSE "some")
    /\ UNCHANGED <<server, rev, evidence, twin, cw, mt, dy, sources>>

\* for (const repo of repos) allCommits.push(...getGitCommits(repo, ...))
ReadLog ==
    /\ run.pc = "collect" /\ sources.pc = "logs"
    /\ sources.i <= Len(sources.repos)
    /\ sources' = [sources EXCEPT
                     !.allCommits = @ \o GetGitCommits(rev, RepoNames[sources.i],
                                                       sources.repos[sources.i]),
                     !.i = @ + 1]
    /\ UNCHANGED <<server, rev, evidence, run, twin, cw, mt, dy>>

\* the commits grouped by date; "src" has no other source
GroupCommits ==
    /\ run.pc = "collect" /\ sources.pc = "logs"
    /\ sources.i > Len(sources.repos)
    /\ commitsByDate' = GroupByDate(sources.allCommits)
    /\ sources' = [sources EXCEPT !.pc = IF rev = "src" THEN "collected" ELSE "mail"]
    /\ run' = IF rev = "src" THEN [run EXCEPT !.pc = "day"] ELSE run
    /\ UNCHANGED <<server, rev, emailTasksByDate, calendarTasksByDate, calendarEventsByDate,
                   twin, cw, mt, dy>>

\* getEmails and matchEmailsToJiraIssues in try / catch
FetchMail ==
    /\ run.pc = "collect" /\ sources.pc = "mail"
    /\ emailTasksByDate' =
          IF sources.mail = "ok" THEN [d \in 1..4 |-> KeepMatches(MailAnswer[d])]
          ELSE NoSignals
    /\ sources' = [sources EXCEPT
                     !.pc = IF rev = "part_001" THEN "calendar" ELSE "collected"]
    /\ run' = IF rev = "part_001" THEN run ELSE [run EXCEPT !.pc = "day"]
    /\ UNCHANGED <<server, rev, commitsByDate, calendarTasksByDate, calendarEventsByDate,
                   twin, cw, mt, dy>>

\* getCalendarEvents and matchCalendarEventsToJiraIssues in try / catch, and
\* what getCalendarEvents(date, date) gives in the day loop
FetchCalendar ==
    /\ run.pc = "collect" /\ sources.pc = "calendar"
    /\ calendarTasksByDate' =
          IF sources.calendar = "ok"
          THEN [d \in 1..4 |-> KeepMatches(CalendarAnswer.tasks[d])]
          ELSE NoSignals
    /\ calendarEventsByDate' =
          IF sources.calendar = "ok" THEN CalendarAnswer.events ELSE NoSignals
    /\ sources' = [sources EXCEPT !.pc = "collected"]
    /\ run' = [run EXCEPT !.pc = "day"]
    /\ UNCHANGED <<server, rev, commitsByDate, emailTasksByDate, twin, cw, mt, dy>>

NextCollect ==
    CollectScan \/ ReadLog \/ GroupCommits \/ FetchMail \/ FetchCalendar \/ ProcessDay

SpecCollect == InitCollect /\ [][NextCollect]_vars

\* the logs of the repositories that failed count for nothing
CommitsOfReadableRepos ==
    Concat([i \in DOMAIN sources.repos |->
               IF sources.repos[i].ok
               THEN GetGitCommits(rev, RepoNames[i], sources.repos[i]) ELSE <<>>])

SomeSourceFailed ==
    \/ \E i \in DOMAIN sources.repos : ~sources.repos[i].ok
    \/ rev # "src" /\ sources.mail # "ok"
    \/ rev = "part_001" /\ sources.calendar # "ok"

\* C15: a repository whose commit log cannot be read, and a mail or calendar
\* source that is unconfigured or unreachable, count as an empty result: the
\* collection does not end the call, the other repositories and sources are
\* collected as they answer, and the call still returns a result with the four
\* days.
C15_FailedSourceCountsAsEmpty ==
    /\ sources.pc = "collected" =>
          /\ commitsByDate = GroupByDate(CommitsOfReadableRepos)
          /\ sources.mail # "ok" => emailTasksByDate = NoSignals
          /\ sources.calendar # "ok" =>
                calendarTasksByDate = NoSignals /\ calendarEventsByDate = NoSignals
    /\ (SomeSourceFailed /\ run.pc \in {"done", "thrown"}) =>
          run.pc = "done" /\ Len(run.result.days) = 4

\* C20: every commit getGitCommits returns has linesChanged of at least 10,
\* whether the log gives a stat line for it, gives none, or gives one that
\* sums to less than 10; hence, once the commits are grouped by date, every
\* issue with a commit on a day has a positive line total.
C20_LinesChangedAtLeastTen ==
    rev # "src" =>
        /\ \A i \in DOMAIN sources.allCommits :
              sources.allCommits[i].linesChanged >= 10
        /\ \A d \in 1..4 :
              \A key \in Range(IssueKeys(commitsByDate[d])) :
                  SumLines(IssueCommits(commitsByDate[d], key)) > 0

\* C20 witness: a repository whose log holds a commit with a stat line that
\* sums to less than 10 and a commit without stat line has been read, and
\* both commits were returned with linesChanged 10
C20_Witness ==
    /\ rev # "src"
    /\ \E r \in DOMAIN sources.repos :
          LET lines == sources.repos[r].lines
          IN  /\ r < sources.i
              /\ sources.repos[r].ok
              /\ \E j, k \in DOMAIN lines :
                    /\ lines[j].kind = "commit" /\ j < Len(lines)
                    /\ lines[j + 1].kind = "stat"
                    /\ Matched(lines[j + 1].insertions)
                          + Matched(lines[j + 1].deletions) < 10
                    /\ lines[k].kind = "commit" /\ k = Len(lines)
                    /\ \E a, b \in DOMAIN sources.allCommits :
                          /\ a # b
                          /\ sources.allCommits[a].date = lines[j].date
                          /\ sources.allCommits[b].date = lines[k].date
                          /\ sources.allCommits[a].linesChanged = 10
                          /\ sources.allCommits[b].linesChanged = 10

-----------------------------------------------------------------------------
(* SpecTool: the server process of index.ts and one tempo_generate_timesheet *)
(* tool call, down to the generateTimesheet call it makes                    *)

\* a || b on strings
OrDefault(value, default) == IF value = "" THEN default ELSE value

\* a handler that leaves the default of dryRun to the client (dryRun = false)
DryRunParamOfClient(dryRun) == dryRun = "true"

\* rawParams.dryRun ?? true, for dryRun "absent", "true" or "false"
DryRunParam(dryRun) == IF dryRun = "absent" THEN TRUE ELSE dryRun = "true"

\* the process before the environment check
NewServer(credentials, defaultProjectsDir) ==
    [pc |-> "start", credentials |-> credentials,
     defaultProjectsDir |-> defaultProjectsDir,
     args |-> [dryRun |-> "absent", projectsDir |-> ""],
     projectsDir |-> "", isError |-> FALSE]

\* the environment check: process.exit(1) without the four credentials
StartStep(srv) ==
    IF ~srv.credentials THEN [srv EXCEPT !.pc = "exited"]
    ELSE [srv EXCEPT !.pc = "listening"]

\* case "tempo_generate_timesheet" up to the generateTimesheet call: the
\* defaults, then the throw without projectsDir (caught: isError)
CallStep(srv, args) ==
    LET projectsDir == OrDefault(args.projectsDir, srv.defaultProjectsDir)
    IN  IF projectsDir = ""
        THEN [srv EXCEPT !.pc = "answered", !.args = args, !.isError = TRUE]
        ELSE [srv EXCEPT !.pc = "running", !.args = args,
                         !.projectsDir = projectsDir]

\* the answer of the handler: the formatted result, or the error caught
AnswerStep(srv, r) ==
    [srv EXCEPT !.pc = "answered", !.isError = (r.pc = "thrown")]

\* what scanGitRepos may find in a directory (existsSync, readdirSync)
Directories == {"/work", "/gone"}

ScanAnswers(projectsDir) ==
    IF projectsDir = "/gone" THEN {"missing"} ELSE {"none", "some"}

InitTool ==
    /\ rev \in Revisions
    /\ commitsByDate = NoSignals
    /\ emailTasksByDate = NoSignals
    /\ calendarTasksByDate = NoSignals
    /\ calendarEventsByDate = NoSignals
    /\ run = Idle
    /\ twin = Idle
    /\ cw = Idle
    /\ mt = Idle
    /\ dy = Idle
    /\ sources = Idle
    /\ \E credentials \in BOOLEAN, defaultProjectsDir \in {""} \cup Directories :
          server = NewServer(credentials, defaultProjectsDir)

StartServer ==
    /\ server.pc = "start"
    /\ server' = StartStep(server)
    /\ UNCHANGED <<rev, evidence, run, twin, cw, mt, dy, sources>>

CallTool ==
    /\ server.pc = "listening"
    /\ \E dryRun \in {"absent", "true", "false"},
          projectsDir \in {""} \cup Directories :
          /\ server' = CallStep(server, [dryRun |-> dryRun, projectsDir |-> projectsDir])
          /\ run' = IF server'.pc = "running" THEN NewRun(DryRunParam(dryRun))
                    ELSE run
    /\ UNCHANGED <<rev, evidence, twin, cw, mt, dy, sources>>

ToolScan ==
    /\ server.pc = "running" /\ run.pc = "scan"
    /\ \E found \in ScanAnswers(server.projectsDir) : run' = ScanStep(run, found)
    /\ UNCHANGED <<rev, evidence, twin, cw, mt, dy, sources, server>>

\* the collection of a week with at most one piece of evidence
ToolCollect ==
    /\ server.pc = "running" /\ run.pc = "collect"
    /\ \E week \in WeeksUpTo(rev, 1) :
          /\ commitsByDate' = week.commits
          /\ emailTasksByDate' = [d \in 1..4 |-> KeepMatches(week.mails[d])]
          /\ calendarTasksByDate' = [d \in 1..4 |-> KeepMatches(week.meets[d])]
          /\ calendarEventsByDate' = week.events
    /\ run' = [run EXCEPT !.pc = "day"]
    /\ UNCHANGED <<rev, twin, cw, mt, dy, sources, server>>

ToolAnswer ==
    /\ server.pc = "running" /\ run.pc \in {"done", "thrown"}
    /\ server' = AnswerStep(server, run)
    /\ UNCHANGED <<rev, evidence, run, twin, cw, mt, dy, sources>>

NextTool ==
    StartServer \/ CallTool \/ ToolScan \/ ToolCollect \/ ProcessDay \/ SubmitEntry
    \/ ToolAnswer

SpecTool == InitTool /\ [][NextTool]_vars

\* the configuration the call needs is missing: a credential, the projectsDir
\* parameter with no default for it, or the directory itself
ConfigurationMissing ==
    \/ ~server.credentials
    \/ /\ server.pc \in {"running", "answered"}
       /\ \/ server.args.projectsDir = "" /\ server.defaultProjectsDir = ""
          \/ server.args.projectsDir = "/gone"
          \/ server.args.projectsDir = "" /\ server.defaultProjectsDir = "/gone"

\* C16: with required configuration missing the run aborts with an error
\* before any day is processed: the process exits at start-up or the call is
\* answered with an error, no day is allocated and no worklog is created.
C16_MissingConfigurationAborts ==
    ConfigurationMissing =>
        /\ run = Idle \/ (/\ run.pc \in {"scan", "thrown"}
                          /\ run.result.days = <<>>
                          /\ run.calls = <<>>
                          /\ run.result.worklogsCreated = 0)
        /\ server.pc \in {"start", "exited", "running", "answered"}
        /\ server.pc = "exited" <=> (~server.credentials /\ server.pc # "start")
        /\ server.pc = "answered" => server.isError

\* C16 witness: a call on a directory that does not exist has been answered
\* with the error scanGitRepos threw, with dryRun = false
C16_Witness ==
    /\ server.pc = "answered" /\ server.isError
    /\ server.projectsDir = "/gone"
    /\ server.args.dryRun = "false"
    /\ run.pc = "thrown" /\ run.error = "Directory does not exist"

\* C17: a tempo_generate_timesheet call that does not specify dryRun runs as a
\* dry run and makes no createWorklog call; createWorklog is called only in a
\* call that passed dryRun = false.
C17_DryRunByDefault ==
    /\ (server.pc \in {"running", "answered"} /\ server.args.dryRun = "absent") =>
          run = Idle \/ (run.dryRun /\ run.calls = <<>>
                         /\ run.result.worklogsCreated = 0)
    /\ (run # Idle /\ run.calls # <<>>) => server.args.dryRun = "false"

\* C17 witness: a call without dryRun was answered with a plan that holds an
\* entry, and no worklog was created
C17_Witness ==
    /\ server.pc = "answered" /\ ~server.isError
    /\ server.args.dryRun = "absent"
    /\ \E d \in DOMAIN run.result.days : run.result.days[d].entries # <<>>
    /\ run.calls = <<>>

-----------------------------------------------------------------------------
(* Claims on the emitted day (SpecDay) *)

\* C18: the totalHours of an emitted day equals the sum of the hours of its
\* entries (0 for a day without entries), whether the entries were created,
\* merged into an existing entry, or rescaled.
C18_TotalIsSumOfEntries ==
    dy.pc = "emitted" => dy.day.totalHours = SumHours(dy.day.entries)

\* C18 witness: a day is emitted in which a calendar meeting was merged into
\* the entry of an issue and normalization changed the hours
C18_Witness ==
    /\ dy.pc = "emitted"
    /\ Len(dy.day.entries) >= 2
    /\ \E i \in DOMAIN dy.day.entries :
          /\ Includes(dy.day.entries[i].description, "Meeting:")
          /\ dy.day.entries[i].hours # dy.pre.entries[i].hours
    /\ dy.pre.totalHours # dy.day.totalHours

\* the normalization block applied once more to an emitted day
NormalizedAgain ==
    Normalize(rev, [entries |-> dy.day.entries, totalHours |-> dy.day.totalHours,
                    thrown |-> FALSE])

\* C19: normalization is idempotent: applied a second time to a day it has
\* already normalized, it leaves every entry's hours and the day's totalHours
\* unchanged.
C19_NormalizationIdempotent ==
    (dy.pc = "emitted" /\ dy.day.entries # <<>>) =>
        /\ \A i \in DOMAIN dy.day.entries :
              NormalizedAgain.entries[i].hours = dy.day.entries[i].hours
        /\ NormalizedAgain.totalHours = dy.day.totalHours

-----------------------------------------------------------------------------
(* SpecShare: the day loop on days whose commits differ widely in size, for  *)
(* the revisions that weigh issues by lines changed                          *)

SmallCommit ==
    [issueKeys |-> <<"XYZ-1">>, project |-> "webapp", linesChanged |-> 10,
     message |-> <<"Typo">>]

LargeCommit ==
    [issueKeys |-> <<"ABC-1">>, project |-> "webapp", linesChanged |-> 400,
     message |-> <<"Login", "page">>]

\* a commit that names an issue of one project first and two of another after it
CrossCommit ==
    [issueKeys |-> <<"XYZ-1", "ABC-1", "ABC-2">>, project |-> "webapp",
     linesChanged |-> 50, message |-> <<"Shared", "header">>]

\* a commit that names the Sprint Meetings issue of its project
MeetingCommit ==
    [issueKeys |-> <<"ABC-9">>, project |-> "webapp", linesChanged |-> 20,
     message |-> <<"Meeting", "notes">>]

ShareCommitKinds ==
    {SmallCommit, LargeCommit, KeyedCommit, CrossCommit, MeetingCommit}

InitShare ==
    /\ server = Idle
    /\ sources = Idle
    /\ rev \in {"part_000", "part_001"}
    /\ commitsByDate = NoSignals
    /\ emailTasksByDate = NoSignals
    /\ calendarTasksByDate = NoSignals
    /\ calendarEventsByDate = NoSignals
    /\ run = Idle
    /\ twin = Idle
    /\ cw = Idle
    /\ mt = Idle
    /\ \E d \in 1..2, commits \in SeqsUpTo(ShareCommitKinds, MaxCommitsPerDay) :
          dy = [pc |-> "allocate", d |-> d, commits |-> commits,
                emailTasks |-> <<>>, calendarTasks |-> <<>>, events |-> <<>>,
                det |-> <<>>, sprint |-> <<>>, pre |-> EmptyDay,
                day |-> TimesheetDay(d, EmptyDay)]

SpecShare == InitShare /\ [][NextDayLoop]_vars

\* the sum of linesChanged over the commits that name the key
RECURSIVE LinesOf(_, _)
LinesOf(commits, key) ==
    IF commits = <<>> THEN 0
    ELSE (IF key \in Range(commits[1].issueKeys) THEN commits[1].linesChanged ELSE 0)
         + LinesOf(Tail(commits), key)

\* lines times story points, 1 when the issue has none
WeightOf(commits, det, key) ==
    LinesOf(commits, key)
      * (IF det[key].storyPoints = NullPoints \/ det[key].storyPoints = 0
         THEN 1 ELSE det[key].storyPoints)

RECURSIVE WeightSum(_, _, _)
WeightSum(commits, det, keys) ==
    IF keys = {} THEN 0
    ELSE LET key == CHOOSE k \in keys : TRUE
         IN  WeightOf(commits, det, key) + WeightSum(commits, det, keys \ {key})

\* hours (in hundredths) is the exact share available * weight / total / 60
\* rounded to the nearest quarter, or the floor 0.25 when that is below it
IsQuantizedShare(hours, available, weight, total) ==
    /\ hours % 25 = 0
    /\ hours >= 25
    /\ \/ Abs(60 * total * hours - 100 * available * weight) * 2 <= 25 * 60 * total
       \/ hours = 25 /\ 100 * available * weight < 25 * 60 * total

-----------------------------------------------------------------------------
(* Claims on the grouping of a day's commits (SpecDay) *)

\* the entries the day would get had its commits without issue key never been made
WithoutKeyless ==
    Allocate(rev, dy.d, KeyedCommits(dy.commits), dy.emailTasks, dy.calendarTasks,
             dy.events, dy.det, dy.sprint)

\* C22: on an allocated day every issue key named by a commit has an entry (a
\* commit naming several keys is in the group of each), the commits that name
\* no key change no entry (the day's entries before normalization are those of
\* the day's keyed commits alone), and a day with commits, keyed or not, gets
\* no "No commits found" warning
C22_GroupingByIssueKey ==
    (dy.pc \in {"normalize", "emitted"} /\ dy.commits # <<>> /\ ~dy.pre.thrown) =>
        /\ \A i \in DOMAIN dy.commits :
              \A key \in Range(dy.commits[i].issueKeys) :
                  \E e \in DOMAIN dy.pre.entries : dy.pre.entries[e].issueKey = key
        /\ KeyedCommits(dy.commits) # <<>> => dy.pre = WithoutKeyless
        /\ \A e \in DOMAIN DayErrors(rev, dy.d, dy.commits) :
              DayErrors(rev, dy.d, dy.commits)[e].kind # "NoCommits"

-----------------------------------------------------------------------------
(* Claims on the main project of a day (SpecShare) *)

\* the sum of linesChanged over the commits that name an issue of the project
RECURSIVE LinesOfProject(_, _)
LinesOfProject(commits, project) ==
    IF commits = <<>> THEN 0
    ELSE (IF \E i \in DOMAIN commits[1].issueKeys :
                 KeyProject(commits[1].issueKeys[i]) = project
          THEN commits[1].linesChanged ELSE 0)
         + LinesOfProject(Tail(commits), project)

\* the projects with the greatest total linesChanged among their issues
GreatestProjects(commits) ==
    LET named == {KeyProject(key) : key \in Range(IssueKeys(commits))}
    IN  {p \in named : \A q \in named :
                          LinesOfProject(commits, q) <= LinesOfProject(commits, p)}

\* the "Daily" entries of the day before normalization
DailyEntries(acc) ==
    SelectSeq(acc.entries, LAMBDA entry : entry.description = <<"Daily">>)

\* C23: on a day of "part_000" with a commit that names an issue, the project
\* whose meeting issue is looked up (the main project) is a project with the
\* greatest total linesChanged over the day's commits, a commit counting for
\* the project of every issue it names; and the day has a daily meeting entry,
\* on the issue the lookup resolved and on that project, exactly when the
\* lookup resolves one
C23_MainProjectByLinesChanged ==
    (/\ rev = "part_000"
     /\ dy.pc \in {"normalize", "emitted", "thrown"}
     /\ KeyedCommits(dy.commits) # <<>>) =>
        \E p \in GreatestProjects(dy.commits) :
            /\ DOMAIN dy.sprint = {p}
            /\ ~dy.pre.thrown =>
                  IF dy.sprint[p] = "none" THEN DailyEntries(dy.pre) = <<>>
                  ELSE /\ Len(DailyEntries(dy.pre)) = 1
                       /\ DailyEntries(dy.pre)[1].issueKey = dy.sprint[p]
                       /\ DailyEntries(dy.pre)[1].project = p

-----------------------------------------------------------------------------
(* SpecLookups: the concurrent getIssueDetails lookups of one day.  The day  *)
(* is [pc, d, commits, pending, issueDetailsMap, pre]: pending holds the     *)
(* keys whose lookup has not completed, issueDetailsMap the Map filled by    *)
(* the completions, as the sequence of its [key, details] pairs in insertion *)
(* order, pre the entries pushed by the weight loops.                        *)

\* Map.set: the value replaced in place, or the pair appended
MapSet(map, key, details) ==
    IF \E i \in DOMAIN map : map[i].key = key
    THEN [i \in DOMAIN map |->
             IF map[i].key = key THEN [key |-> key, details |-> details] ELSE map[i]]
    ELSE Append(map, [key |-> key, details |-> details])

\* issueDetailsMap.get(key) for each of the keys; a missing pair gives undefined,
\* which "details?.storyPoints || 1" and "details?.summary || issueKey" treat
\* as a lookup that found nothing
MapGet(map, keys) ==
    [key \in keys |->
        IF \E i \in DOMAIN map : map[i].key = key
        THEN map[CHOOSE i \in DOMAIN map : map[i].key = key].details
        ELSE FailedDetails]

\* a promise race instead of the join: the first completion resumes the caller
AnySettled(keys, pending) == keys = {} \/ pending # keys

\* await Promise.all(...): resumes when every lookup has completed
\* (getIssueDetails catches its errors and never rejects)
AllSettled(keys, pending) == pending = {}

InitLookups ==
    /\ server = Idle
    /\ sources = Idle
    /\ rev \in {"part_000", "part_001"}
    /\ commitsByDate = NoSignals
    /\ emailTasksByDate = NoSignals
    /\ calendarTasksByDate = NoSignals
    /\ calendarEventsByDate = NoSignals
    /\ run = Idle
    /\ twin = Idle
    /\ cw = Idle
    /\ mt = Idle
    /\ \E d \in 1..4, commits \in SeqsUpTo(DayCommitKinds, MaxCommitsPerDay) :
          dy = [pc |-> "lookups", d |-> d, commits |-> commits,
                pending |-> Range(IssueKeys(commits)), issueDetailsMap |-> <<>>,
                pre |-> EmptyDay]

\* one lookup completes: issueDetailsMap.set(key, details)
CompleteLookup ==
    /\ dy.pc = "lookups"
    /\ \E key \in dy.pending, details \in DayDetailAnswers :
          dy' = [dy EXCEPT !.pending = @ \ {key},
                           !.issueDetailsMap = MapSet(@, key, details)]
    /\ UNCHANGED <<server, sources, rev, evidence, run, twin, cw, mt>>

\* the weight loop and the entry loop, both over issueKeys
ComputeWeights ==
    /\ dy.pc = "lookups"
    /\ AllSettled(Range(IssueKeys(dy.commits)), dy.pending)
    /\ LET keys == IssueKeys(dy.commits)
       IN  dy' = [dy EXCEPT !.pc = "weights",
                            !.pre = CommitEntries(EmptyDay, rev, dy.d, dy.commits,
                                                  MapGet(dy.issueDetailsMap, Range(keys)),
                                                  keys)]
    /\ UNCHANGED <<server, sources, rev, evidence, run, twin, cw, mt>>

NextLookups == CompleteLookup \/ ComputeWeights

SpecLookups == InitLookups /\ [][NextLookups]_vars

\* what the lookups answered, whatever the order they completed in
LookupAnswers ==
    [key \in {dy.issueDetailsMap[i].key : i \in DOMAIN dy.issueDetailsMap} |->
        dy.issueDetailsMap[CHOOSE i \in DOMAIN dy.issueDetailsMap :
                               dy.issueDetailsMap[i].key = key].details]

\* C24: when the weights of a day are computed every lookup of the day has
\* completed, and the entries (their order, weights and hours) are those given
\* by the commits and by what each lookup answered, whatever the order in
\* which the lookups completed: one entry per issue key in the order the
\* commits name the keys, with the hours of the weighted share
C24_LookupsJoinedBeforeWeights ==
    dy.pc = "weights" =>
        LET keys == IssueKeys(dy.commits)
        IN  /\ dy.pending = {}
            /\ DOMAIN LookupAnswers = Range(keys)
            /\ [i \in DOMAIN dy.pre.entries |-> dy.pre.entries[i].issueKey] = keys
            /\ \A i \in DOMAIN keys :
                  /\ dy.pre.entries[i].hours =
                        IssueHours(rev, dy.d, dy.commits, LookupAnswers, keys[i])
                  /\ dy.pre.entries[i].description =
                        IssueDescription(rev, dy.commits, LookupAnswers, keys[i])

\* three lookups that completed in another order than they were started, with
\* story points that make the shares differ
C24_Witness ==
    /\ dy.pc = "weights"
    /\ Len(dy.issueDetailsMap) = 3
    /\ [i \in DOMAIN dy.issueDetailsMap |-> dy.issueDetailsMap[i].key]
          # IssueKeys(dy.commits)
    /\ \E i, j \in DOMAIN dy.pre.entries :
          dy.pre.entries[i].hours # dy.pre.entries[j].hours

-----------------------------------------------------------------------------
(* SpecWeek: the per-day loop over a week, the days taken in any order, with *)
(* the client's lastCalendarDebug, which getCalendarEvents writes and the    *)
(* loop body reads.  The run is [pc, todo, lastCalendarDebug, seen, result]: *)
(* todo holds the days not processed yet, seen[d] what the collaborators     *)
(* answered while day d was processed.                                       *)

\* the evidence of one day of the week
WeekDayKinds ==
    {[commits |-> <<>>, events |-> <<>>],
     [commits |-> <<KeyedCommit>>, events |-> <<>>],
     [commits |-> <<KeyedCommit>>, events |-> <<DailyEvent>>],
     [commits |-> <<KeylessCommit>>, events |-> <<DailyEvent>>]}

\* getCalendarEvents(date, date): the events kept, an API error (caught: no
\* event), or no OAuth client or token (no event)
CalendarStatus == {"kept", "error", "unconfigured"}

\* this.lastCalendarDebug after the call, which the guards return before writing
DebugAfter(debug, status) == IF status = "unconfigured" THEN debug ELSE status

\* dayCalendarEvents taken from what the previous call left behind
DayCalendarEventsStale(debug, status, events) ==
    IF status = "kept" /\ debug # "error" THEN events ELSE <<>>

\* const dayCalendarEvents = await this.getCalendarEvents(date, date)
DayCalendarEvents(debug, status, events) ==
    IF status = "kept" THEN events ELSE <<>>

\* the "[DEBUG] date: oauth=..., cal=${this.lastCalendarDebug}" line
DebugErrors(R, d, commits, debug) ==
    (IF NoCommits(R, d, commits) THEN <<Err("NoCommits", d, "", "")>> ELSE <<>>)
    \o (IF R = "part_001" THEN <<Err("Debug", d, "", debug)>> ELSE <<>>)

NewWeek ==
    [pc |-> "day", todo |-> 1..4, lastCalendarDebug |-> "",
     seen |-> [d \in 1..4 |-> [status |-> "", det |-> <<>>, sprint |-> <<>>]],
     result |-> [days |-> <<>>, errors |-> <<>>]]

\* the loop body for day d, given the collaborators' answers
WeekStep(r, R, d, commits, mails, meets, events, det, sprint, status) ==
    LET debug == IF R = "part_001" THEN DebugAfter(r.lastCalendarDebug, status)
                 ELSE r.lastCalendarDebug
        out == DayOutcome(R, d, commits, mails, meets, events, det, sprint)
    IN  IF out.thrown THEN [r EXCEPT !.pc = "thrown", !.lastCalendarDebug = debug]
        ELSE [r EXCEPT !.pc = IF r.todo = {d} THEN "done" ELSE "day",
                       !.todo = @ \ {d},
                       !.lastCalendarDebug = debug,
                       !.seen[d] = [status |-> status, det |-> det, sprint |-> sprint],
                       !.result.errors = @ \o DebugErrors(R, d, commits, debug),
                       !.result.days = Append(@, TimesheetDay(d, out))]

InitWeek ==
    /\ server = Idle
    /\ sources = Idle
    /\ rev \in Revisions
    /\ \E first \in WeekDayKinds, second \in WeekDayKinds :
          /\ commitsByDate = [NoSignals EXCEPT ![1] = first.commits,
                                               ![2] = second.commits]
          /\ calendarEventsByDate =
                IF rev = "part_001"
                THEN [NoSignals EXCEPT ![1] = first.events, ![2] = second.events]
                ELSE NoSignals
    /\ emailTasksByDate = NoSignals
    /\ calendarTasksByDate = NoSignals
    /\ run = NewWeek
    /\ twin = Idle
    /\ cw = Idle
    /\ mt = Idle
    /\ dy = Idle

ProcessWeekDay ==
    /\ run.pc = "day"
    /\ \E d \in run.todo, status \in CalendarStatus :
          LET events == DayCalendarEvents(run.lastCalendarDebug, status,
                                          calendarEventsByDate[d])
          IN  \E det \in [DetailKeys(rev, d, commitsByDate[d], emailTasksByDate[d])
                            -> DetailAnswers] :
              \E sprint \in [SprintProjects(rev, d, commitsByDate[d], events)
                               -> UNION {SprintAnswers(p) :
                                           p \in {"ABC", "XYZ", "BS", "webapp"}}] :
                  /\ \A p \in DOMAIN sprint : sprint[p] \in SprintAnswers(p)
                  /\ rev # "part_001" => status = "unconfigured"
                  /\ run' = WeekStep(run, rev, d, commitsByDate[d], emailTasksByDate[d],
                                     calendarTasksByDate[d], events, det, sprint, status)
    /\ UNCHANGED <<server, sources, rev, evidence, twin, cw, mt, dy>>

NextWeek == ProcessWeekDay

SpecWeek == InitWeek /\ [][NextWeek]_vars

\* the calendar events of day d that the day's own call was answered with
OwnEvents(d) ==
    IF run.seen[d].status = "kept" THEN calendarEventsByDate[d] ELSE <<>>

-----------------------------------------------------------------------------
(* SpecSimilarity: calculateSimilarity applied to two keyword lists *)

MaxKeywords == 3

Min(a, b) == IF a < b THEN a ELSE b

KeywordPool == {"invoice", "invoices", "export", "login"}

InitSimilarity ==
    /\ server = Idle
    /\ sources = Idle
    /\ rev \in {"part_000", "part_001"}
    /\ commitsByDate = NoSignals
    /\ emailTasksByDate = NoSignals
    /\ calendarTasksByDate = NoSignals
    /\ calendarEventsByDate = NoSignals
    /\ run = Idle
    /\ twin = Idle
    /\ cw = Idle
    /\ dy = Idle
    /\ \E keywords1 \in SeqsUpTo(KeywordPool, MaxKeywords),
          keywords2 \in SeqsUpTo(KeywordPool, MaxKeywords) :
          mt = [pc |-> "call", keywords1 |-> keywords1, keywords2 |-> keywords2,
                score |-> Fraction(0, 1)]

Similarity ==
    /\ mt.pc = "call"
    /\ mt' = [mt EXCEPT !.pc = "returned",
                        !.score = CalculateSimilarity(mt.keywords1, mt.keywords2)]
    /\ UNCHANGED <<server, sources, rev, evidence, run, twin, cw, dy>>

NextSimilarity == Similarity

SpecSimilarity == InitSimilarity /\ [][NextSimilarity]_vars

\* the keywords of the first list that are in the second
ExactMatches(keywords1, keywords2) == Range(keywords1) \cap Range(keywords2)

\* the other keywords of the first list that contain, or are contained in, a
\* keyword of the second
PartialMatches(keywords1, keywords2) ==
    {w \in Range(keywords1) \ Range(keywords2) :
        \E w2 \in Range(keywords2) : WordIncludes(w, w2) \/ WordIncludes(w2, w)}

\* C26: the score calculateSimilarity returns is between 0 and 1; it is 0 when
\* either list is empty, and otherwise (1 for each keyword of the first set
\* that is in the second, plus 0.5 for each other keyword of the first set
\* that contains or is contained in a keyword of the second) divided by the
\* size of the smaller set
C26_SimilarityBetweenZeroAndOne ==
    mt.pc = "returned" =>
        LET exact == Cardinality(ExactMatches(mt.keywords1, mt.keywords2))
            partial == Cardinality(PartialMatches(mt.keywords1, mt.keywords2))
            smaller == Min(Cardinality(Range(mt.keywords1)),
                           Cardinality(Range(mt.keywords2)))
        IN  /\ ~Greater(Fraction(0, 1), mt.score)
            /\ ~Greater(mt.score, Fraction(1, 1))
            /\ IF mt.keywords1 = <<>> \/ mt.keywords2 = <<>>
               THEN mt.score.num = 0
               ELSE /\ ~Greater(mt.score, Fraction(2 * exact + partial, 2 * smaller))
                    /\ ~Greater(Fraction(2 * exact + partial, 2 * smaller), mt.score)

-----------------------------------------------------------------------------
(* Claims on the counters of a returned run (Spec) *)

RECURSIVE EntryCount(_)
EntryCount(days) ==
    IF days = <<>> THEN 0 ELSE Len(days[1].entries) + EntryCount(Tail(days))

FailedToCreate(r) ==
    Cardinality({i \in DOMAIN r.result.errors :
                    r.result.errors[i].kind = "WorklogFailed"})

\* C27: when a non-dry run has returned, worklogsCreated plus the number of
\* "Failed to create worklog" errors equals the number of entries over all the
\* emitted days: createWorklog has been called exactly once for each entry,
\* and worklogsCreated is the number of the calls that succeeded
C27_CreatedPlusFailedIsAllEntries ==
    (run.pc = "done" /\ ~run.dryRun) =>
        /\ run.result.worklogsCreated + FailedToCreate(run) = EntryCount(Emitted)
        /\ Len(run.calls) = EntryCount(Emitted)
        /\ run.result.worklogsCreated =
              Cardinality({i \in DOMAIN run.calls : run.calls[i].outcome = "ok"})

\* a returned run with a worklog created and a worklog refused
C27_Witness ==
    /\ run.pc = "done"
    /\ ~run.dryRun
    /\ run.result.worklogsCreated > 0
    /\ FailedToCreate(run) > 0

-----------------------------------------------------------------------------
(* Claims on the issue keys of an emitted day (SpecShare) *)

\* C28: within one emitted day each issue key appears in at most one entry,
\* also when a commit names the meeting issue of the main project or the Monday
\* meeting issue
C28_OneEntryPerIssue ==
    dy.pc = "emitted" =>
        \A i, j \in DOMAIN dy.day.entries :
            dy.day.entries[i].issueKey = dy.day.entries[j].issueKey => i = j

-----------------------------------------------------------------------------
(* SpecHandler: one call of the CallToolRequestSchema handler of index.ts.   *)
(* The call is [pc, name, projectKey, projectsDir, issueKey, worklogs,       *)
(* failure, response]:                                                       *)
(* pc is "called", "lookup" (awaiting findSprintMeetingsIssue), "client"     *)
(* (awaiting the client method of the tool), "answered" (the handler         *)
(* returned response) or "escaped" (the handler rejected); failure is the    *)
(* message of the error thrown inside the try block, worklogs the number of  *)
(* worklogs the call created.                                                *)

ToolNames ==
    {"tempo_get_worklogs", "tempo_create_worklog", "tempo_update_worklog",
     "tempo_delete_worklog", "tempo_get_work_attributes", "tempo_get_roles",
     "tempo_log_sprint_meeting", "tempo_generate_timesheet"}

\* the errors a client method may throw
ClientErrors == {"Tempo API error", "Jira API error"}

NoResponse == [isError |-> FALSE, text |-> <<>>]

NewCall(name, projectKey, projectsDir) ==
    [pc |-> "called", name |-> name, projectKey |-> projectKey,
     projectsDir |-> projectsDir, issueKey |-> "", worklogs |-> 0, failure |-> "", response |-> NoResponse]

\* a handler without the catch block: the error rejects the handler's promise
CatchRethrowing(call, message) ==
    [call EXCEPT !.pc = "escaped", !.failure = message]

\* catch (error): the answer { content: [{ text: `Error: ${message}` }], isError: true }
Catch(call, message) ==
    [call EXCEPT !.pc = "answered", !.failure = message,
                 !.response = [isError |-> TRUE, text |-> <<"Error:", message>>]]

\* switch (name): the case of the tool, or the default case
DispatchStep(call) ==
    IF call.name \notin ToolNames THEN Catch(call, "Unknown tool")
    ELSE IF call.name = "tempo_log_sprint_meeting" THEN [call EXCEPT !.pc = "lookup"]
    ELSE IF call.name = "tempo_generate_timesheet" /\ call.projectsDir = ""
    THEN Catch(call, "projectsDir is required")
    ELSE [call EXCEPT !.pc = "client"]

\* case "tempo_log_sprint_meeting": findSprintMeetingsIssue, then the throw
\* when no issue was found
SprintIssueStep(call, answer) ==
    IF answer = "fail" THEN Catch(call, "Jira API error")
    ELSE IF answer = "none" THEN Catch(call, "No Sprint Meetings issue found")
    ELSE [call EXCEPT !.pc = "client", !.issueKey = answer]

\* the client method of the tool and the return of the formatted text
ClientStep(call, outcome) ==
    IF outcome # "ok" THEN Catch(call, outcome)
    ELSE [call EXCEPT !.pc = "answered",
                      !.worklogs = IF call.name \in {"tempo_create_worklog",
                                                    "tempo_log_sprint_meeting"}
                                   THEN @ + 1 ELSE @,
                      !.response = [isError |-> FALSE, text |-> <<call.name>>]]

InitHandler ==
    /\ rev = "src"
    /\ commitsByDate = NoSignals
    /\ emailTasksByDate = NoSignals
    /\ calendarTasksByDate = NoSignals
    /\ calendarEventsByDate = NoSignals
    /\ run = Idle
    /\ twin = Idle
    /\ cw = Idle
    /\ mt = Idle
    /\ dy = Idle
    /\ sources = Idle
    /\ \E name \in ToolNames \cup {"tempo_undo"}, projectKey \in {"ABC", "XYZ", "BS"},
          projectsDir \in {"", "/work"} :
          server = NewCall(name, projectKey, projectsDir)

Dispatch ==
    /\ server.pc = "called"
    /\ server' = DispatchStep(server)
    /\ UNCHANGED <<rev, evidence, run, twin, cw, mt, dy, sources>>

FindSprintIssue ==
    /\ server.pc = "lookup"
    /\ \E answer \in SprintAnswers(server.projectKey) :
          server' = SprintIssueStep(server, answer)
    /\ UNCHANGED <<rev, evidence, run, twin, cw, mt, dy, sources>>

ClientCall ==
    /\ server.pc = "client"
    /\ \E outcome \in {"ok"} \cup ClientErrors : server' = ClientStep(server, outcome)
    /\ UNCHANGED <<rev, evidence, run, twin, cw, mt, dy, sources>>

NextHandler == Dispatch \/ FindSprintIssue \/ ClientCall

SpecHandler == InitHandler /\ [][NextHandler]_vars

\* C29: the handler never lets an error escape.  Every call that threw inside
\* the handler is answered with isError true and the text "Error: " followed
\* by the message, and a call that did not throw is answered without isError;
\* an unknown tool name is answered with the error "Unknown tool", and a
\* sprint-meeting call whose project has no Sprint Meetings issue with the
\* error that says so, no worklog being created
C29_HandlerAnswersEveryError ==
    /\ server.pc # "escaped"
    /\ server.pc = "answered" =>
          /\ server.response.isError <=> server.failure # ""
          /\ server.response.isError =>
                server.response.text = <<"Error:", server.failure>>
          /\ server.name \notin ToolNames =>
                server.response.isError /\ server.failure = "Unknown tool"
          /\ server.failure = "No Sprint Meetings issue found" =>
                server.name = "tempo_log_sprint_meeting" /\ server.worklogs = 0
          /\ server.worklogs > 0 => ~server.response.isError
    /\ (server.pc \in {"lookup", "client"} /\ server.name = "tempo_log_sprint_meeting") =>
          server.worklogs = 0

\* a sprint-meeting call answered with the error that the project has no
\* Sprint Meetings issue
C29_Witness ==
    /\ server.pc = "answered"
    /\ server.name = "tempo_log_sprint_meeting"
    /\ server.response = [isError |-> TRUE,
                          text |-> <<"Error:", "No Sprint Meetings issue found">>]
    /\ server.worklogs = 0

-----------------------------------------------------------------------------
(* SpecUpdate: one updateWorklog call.  The call is [pc, client, existing,   *)
(* params, body]: client holds the attribute keys initialize found and the   *)
(* default role, existing the worklog getWorklog returned with the role and  *)
(* the account its attributes hold, body the body of the PUT request.  A     *)
(* parameter that was omitted is "" (0 for the date, <<"absent">> for the    *)
(* description).                                                             *)

AbsentText == <<"absent">>

ExistingWorklogs ==
    [issue : {"10001", "10002"}, author : {"me"}, startDate : 1..2,
     description : {<<>>, <<"Login", "page">>}, role : {"Dev", "QA"},
     account : {"", "ACC-1"}]

UpdateParams ==
    [timeSpentHours : {25, 200}, date : 0..2,
     description : {AbsentText, <<>>, <<"Fix", "export">>},
     role : {"", "QA"}, accountKey : {"", "ACC-2"}]

UpdateClients ==
    [roleAttributeKey : {"", "_Role_"}, accountAttributeKey : {"", "_Account_"},
     defaultRole : {"Dev"}]

\* the attributes array of the request
UpdateAttributes(client, params) ==
    LET role == OrDefault(params.role, client.defaultRole)
    IN  (IF client.roleAttributeKey # ""
         THEN <<[key |-> client.roleAttributeKey, value |-> role]>> ELSE <<>>)
        \o (IF client.accountAttributeKey # "" /\ params.accountKey # ""
            THEN <<[key |-> client.accountAttributeKey, value |-> params.accountKey]>>
            ELSE <<>>)

\* the body of the PUT /worklogs/{id} request
UpdateBody(client, existing, params) ==
    [issueId |-> existing.issue,
     timeSpentSeconds |-> params.timeSpentHours * 36,
     startDate |-> IF params.date # 0 THEN params.date ELSE existing.startDate,
     description |-> IF params.description # AbsentText THEN params.description
                     ELSE existing.description,
     authorAccountId |-> existing.author,
     attributes |-> UpdateAttributes(client, params)]

NoBody ==
    [issueId |-> "", timeSpentSeconds |-> 0, startDate |-> 0, description |-> <<>>,
     authorAccountId |-> "", attributes |-> <<>>]

InitUpdate ==
    /\ server = Idle
    /\ sources = Idle
    /\ rev = "src"
    /\ commitsByDate = NoSignals
    /\ emailTasksByDate = NoSignals
    /\ calendarTasksByDate = NoSignals
    /\ calendarEventsByDate = NoSignals
    /\ run = Idle
    /\ twin = Idle
    /\ mt = Idle
    /\ dy = Idle
    /\ \E client \in UpdateClients, params \in UpdateParams :
          cw = [pc |-> "get", client |-> client, params |-> params,
                existing |-> CHOOSE w \in ExistingWorklogs : TRUE, body |-> NoBody]

\* getWorklog(params.worklogId): the worklog, or the request fails
GetWorklog ==
    /\ cw.pc = "get"
    /\ \/ \E existing \in ExistingWorklogs :
             cw' = [cw EXCEPT !.pc = "put", !.existing = existing]
       \/ cw' = [cw EXCEPT !.pc = "thrown"]
    /\ UNCHANGED <<server, sources, rev, evidence, run, twin, mt, dy>>

\* the PUT request is built and sent
PutWorklog ==
    /\ cw.pc = "put"
    /\ cw' = [cw EXCEPT !.pc = "sent",
                        !.body = UpdateBody(cw.client, cw.existing, cw.params)]
    /\ UNCHANGED <<server, sources, rev, evidence, run, twin, mt, dy>>

NextUpdate == GetWorklog \/ PutWorklog

SpecUpdate == InitUpdate /\ [][NextUpdate]_vars

\* the request carries no attribute with the key that gives it another value
KeepsAttribute(body, key, value) ==
    \A i \in DOMAIN body.attributes :
        body.attributes[i].key = key => body.attributes[i].value = value

\* C30: the request updateWorklog sends keeps the existing worklog's issue and
\* author, keeps its date and its description when that parameter is omitted,
\* and carries no other role than the worklog's when role is omitted and no
\* other account than the worklog's when accountKey is omitted
C30_UpdateKeepsWhatIsOmitted ==
    cw.pc = "sent" =>
        /\ cw.body.issueId = cw.existing.issue
        /\ cw.body.authorAccountId = cw.existing.author
        /\ cw.params.date = 0 => cw.body.startDate = cw.existing.startDate
        /\ cw.params.description = AbsentText =>
              cw.body.description = cw.existing.description
        /\ cw.params.role = "" =>
              KeepsAttribute(cw.body, cw.client.roleAttributeKey, cw.existing.role)
        /\ cw.params.accountKey = "" =>
              KeepsAttribute(cw.body, cw.client.accountAttributeKey,
                             cw.existing.account)
====
